---- MODULE Spec2Model ----
(***************************************************************************)
(* kubetag: the image inventory store (ImageRepository on the images and   *)
(* image_tags tables) and the reconciler (ImageService.HandleImageEvent).  *)
(*                                                                         *)
(* Spec      the repository called directly, one call after the other.     *)
(* SpecRec   one reconciler handling events one after the other; every     *)
(*           HandleImageEvent runs to completion before the next starts.   *)
(* SpecQuery one GetAllImages or GetImageTagHistory against a store that   *)
(*           repository calls have built.                                  *)
(* SpecEmit  the informer callbacks (AddFunc, UpdateFunc, DeleteFunc), each *)
(*           with the HandleImageEvent of every event it emits.            *)
(* SpecParse one call of parseImageFull, with any image reference.         *)
(* SpecStop  SpecConc with the shutdown of main: the context is cancelled,  *)
(*           Stop closes stopCh, main returns; fair scheduling.            *)
(* SpecStopCalls  SpecStop with a caller of InformerManager.Stop.           *)
(* SpecMetrics    one updateMetrics against a store that repository calls   *)
(*           have built.                                                   *)
(* SpecConc  several informer callbacks inside UpsertImageTag or           *)
(*           DeleteImageTag at the same time; every SQL statement is one   *)
(*           step.                                                         *)
(***************************************************************************)
EXTENDS Integers, Sequences, FiniteSets, TLC

VARIABLES
    images,     \* table images, in primary-key order
    tags,       \* table image_tags, in primary-key order
    clock,      \* the value time.Now().UTC() returns
    event,      \* the event of the latest HandleImageEvent
    calls,      \* the repository calls that HandleImageEvent made, with results,
                \* whether the call changed a row and whether the event
                \* repeats the one before it (history)
    nOps,       \* number of events handled so far
    errors,     \* number of "Error upserting/deleting image tag" log lines
    alive,      \* the process has not exited
    upserts,    \* per tuple: successful UpsertImageTag calls since the last
                \* successful DeleteImageTag of its resource (history)
    pc,         \* SpecConc: the statement each callback is about to execute
    task,       \* SpecConc: the repository call each callback is in
    imageID,    \* SpecConc: image.ID after FirstOrCreate, per callback
    now,        \* SpecConc: the local now of UpsertImageTag, per callback
    result,     \* SpecConc: what the latest call of each callback returned
    nCalls,     \* SpecConc: number of calls started so far
    reply,      \* SpecQuery: what the query of the API request returned
    namespaces, \* InformerManager.namespaces, the namespaces to watch
    cluster,    \* the pod spec of every workload the informers have cached
    trigger,    \* SpecEmit: the latest informer callback and its objects
    emitted,    \* SpecEmit: the events that callback handed to eventHandler
    imageRef,   \* SpecParse: the image reference parseImageFull was called with
    parsed,     \* SpecParse: what that call returned, or that it panicked
    ctxDone,    \* SpecStop: the context passed to Start is cancelled
    stopCh,     \* SpecStop: InformerManager.stopCh, "open" or "closed"
    stopCalls,  \* SpecStop: who has run Stop: a caller, the goroutine of Start
    imageVersionGauge
                \* SpecMetrics: the samples of kubetag_image_version_count,
                \* per <<image_name, namespace>>

vars == <<images, tags, clock, event, calls, nOps, errors, alive, upserts,
          pc, task, imageID, now, result, nCalls, reply,
          namespaces, cluster, trigger, emitted, imageRef, parsed,
          ctxDone, stopCh, stopCalls, imageVersionGauge>>

seqVars == <<event, calls, nOps, errors, alive, upserts>>
concVars == <<pc, task, imageID, now, result, nCalls>>
emitVars == <<namespaces, cluster, trigger, emitted>>
parseVars == <<imageRef, parsed>>
stopVars == <<ctxDone, stopCh, stopCalls>>
metricVars == <<imageVersionGauge>>

----------------------------------------------------------------------------
(* Bounds *)

MaxClock == 2
MaxOps == 4
MaxEvents == 4
NProcs == 2
MaxCalls == 3
MaxWrites == 3
MaxTriggers == 2
MaxLen == 5

Procs == 1..NProcs

----------------------------------------------------------------------------
(* Inputs *)

EventTypeAdd == "ADD"
EventTypeUpdate == "UPDATE"
EventTypeDelete == "DELETE"
EventTypes == {EventTypeAdd, EventTypeUpdate, EventTypeDelete, "UNKNOWN"}

Fields == {"ImageName", "Repository", "ImageTag", "ResourceType",
           "ResourceName", "Namespace", "ContainerName"}

Base == [ImageName |-> "nginx", Repository |-> "docker.io", ImageTag |-> "1.19",
         ResourceType |-> "Deployment", ResourceName |-> "web",
         Namespace |-> "default", ContainerName |-> "nginx"]

Other == [ImageName |-> "nginx", Repository |-> "gcr.io", ImageTag |-> "1.20",
          ResourceType |-> "Deployment", ResourceName |-> "api",
          Namespace |-> "prod", ContainerName |-> "sidecar"]

VaryFields == {f \in Fields : Other[f] # Base[f]}

\* The identity fields of an event: Base and every tuple that differs from
\* it in one field (another repository, tag, resource name, namespace or
\* container).
Tuples == {Base} \cup {[Base EXCEPT ![f] = Other[f]] : f \in VaryFields}

\* The tuples of the reconciler's events and of the concurrent calls: one
\* tuple, the same image and tag in another resource, and another tag in
\* the same resource.
FewTuples ==
    {Base, [Base EXCEPT !.ResourceName = Other.ResourceName],
     [Base EXCEPT !.ImageTag = Other.ImageTag]}

\* k8s.ImageEvent without its Timestamp, which no handler reads.
Events == {[Type |-> ty, Id |-> t] : ty \in EventTypes, t \in FewTuples}

\* The workloads the informers report: one in a namespace, one of the same
\* type and name in another namespace.
WorkloadKeys ==
    {[ResourceType |-> Base.ResourceType, ResourceName |-> Base.ResourceName,
      Namespace |-> ns] : ns \in {Base.Namespace, Other.Namespace}}

\* The three-part key DeleteImageTag receives.
ResourceKey(t) ==
    [ResourceType |-> t.ResourceType, ResourceName |-> t.ResourceName,
     Namespace |-> t.Namespace]

Keys == {ResourceKey(t) : t \in Tuples}

----------------------------------------------------------------------------
(* Table images *)

\* fmt.Sprintf("%s/%s", repository, imageName)
FullName(repository, imageName) == repository \o "/" \o imageName

\* The SELECT of FirstOrCreate: WHERE full_name = ? plus the equality
\* conditions of the struct, ORDER BY id LIMIT 1.  0 when no row matches.
FindImage(imgs, imageName, repository, fullName) ==
    LET hit == {i \in DOMAIN imgs :
                    /\ imgs[i].FullName = fullName
                    /\ imgs[i].Name = imageName
                    /\ imgs[i].Repository = repository}
    IN IF hit = {} THEN 0 ELSE CHOOSE i \in hit : \A j \in hit : i <= j

\* The causes of a failed statement: the unique index on full_name refused
\* the row, or the storage layer failed.
DuplicateKey == "duplicate key value violates unique constraint"
StorageFailure == "storage failure"

\* The INSERT into a table without the unique index on full_name.
CreateImage_NoIndex(imgs, imageName, repository, fullName) ==
    [images |-> Append(imgs, [ID |-> Len(imgs) + 1, Name |-> imageName,
                              Repository |-> repository,
                              FullName |-> fullName]),
     ID |-> Len(imgs) + 1, err |-> ""]

\* The INSERT of FirstOrCreate.  FullName carries a unique index, so the
\* insert of a second row with the same full_name fails.
CreateImage(imgs, imageName, repository, fullName) ==
    IF \E i \in DOMAIN imgs : imgs[i].FullName = fullName
    THEN [images |-> imgs, ID |-> 0, err |-> DuplicateKey]
    ELSE [images |-> Append(imgs, [ID |-> Len(imgs) + 1, Name |-> imageName,
                                   Repository |-> repository,
                                   FullName |-> fullName]),
          ID |-> Len(imgs) + 1, err |-> ""]

\* db.Where("full_name = ?", fullName).FirstOrCreate(&image, ...), run with
\* no other statement in between.
FirstOrCreate(imgs, imageName, repository, fullName) ==
    LET id == FindImage(imgs, imageName, repository, fullName)
    IN IF id # 0
       THEN [images |-> imgs, ID |-> id, err |-> ""]
       ELSE CreateImage(imgs, imageName, repository, fullName)

----------------------------------------------------------------------------
(* Table image_tags *)

\* models.ImageTag as UpsertImageTag fills it.  DeletedAt = 0 is NULL.
NewImageTag(id, a, t) ==
    [ImageID |-> id, Tag |-> a.ImageTag, ResourceType |-> a.ResourceType,
     ResourceName |-> a.ResourceName, Namespace |-> a.Namespace,
     ContainerName |-> a.ContainerName, FirstSeen |-> t, LastSeen |-> t,
     DeletedAt |-> 0]

\* The conflict target without the tag column.
SameIndexKey_NoTag(r, s) ==
    /\ r.ImageID = s.ImageID
    /\ r.ResourceType = s.ResourceType
    /\ r.ResourceName = s.ResourceName
    /\ r.Namespace = s.Namespace
    /\ r.ContainerName = s.ContainerName

\* The columns of the unique index idx_image_tag_resource, which are the
\* columns of the ON CONFLICT clause.  The partial index idx_image_tag_unique
\* that Migrate adds (WHERE deleted_at IS NULL) has the same columns: it
\* forbids nothing that idx_image_tag_resource allows, and a conflict target
\* without a WHERE clause does not select it.
SameIndexKey(r, s) ==
    /\ r.ImageID = s.ImageID
    /\ r.Tag = s.Tag
    /\ r.ResourceType = s.ResourceType
    /\ r.ResourceName = s.ResourceName
    /\ r.Namespace = s.Namespace
    /\ r.ContainerName = s.ContainerName

\* The insert without its conflict target: every call adds a row.
CreateOnConflict_AlwaysInsert(tgs, row) ==
    Append(tgs, row @@ [ID |-> Len(tgs) + 1])

\* The upsert with first_seen among the columns of DoUpdates.
CreateOnConflict_Refresh(tgs, row) ==
    IF \E i \in DOMAIN tgs : SameIndexKey(tgs[i], row)
    THEN [i \in DOMAIN tgs |->
            IF SameIndexKey(tgs[i], row)
            THEN [tgs[i] EXCEPT !.LastSeen = row.LastSeen,
                                !.FirstSeen = row.FirstSeen]
            ELSE tgs[i]]
    ELSE Append(tgs, row @@ [ID |-> Len(tgs) + 1])

\* INSERT ... ON CONFLICT (image_id, tag, resource_type, resource_name,
\* namespace, container_name) DO UPDATE SET last_seen, updated_at.  The
\* index covers every row, soft-deleted ones too, and the statement has no
\* condition on deleted_at.
CreateOnConflict(tgs, row) ==
    IF \E i \in DOMAIN tgs : SameIndexKey(tgs[i], row)
    THEN [i \in DOMAIN tgs |->
            IF SameIndexKey(tgs[i], row)
            THEN [tgs[i] EXCEPT !.LastSeen = row.LastSeen]
            ELSE tgs[i]]
    ELSE Append(tgs, row @@ [ID |-> Len(tgs) + 1])

\* The WHERE of the delete without its namespace condition.
MatchesKey_AnyNamespace(r, k) ==
    /\ r.ResourceType = k.ResourceType
    /\ r.ResourceName = k.ResourceName

MatchesKey(r, k) ==
    /\ r.ResourceType = k.ResourceType
    /\ r.ResourceName = k.ResourceName
    /\ r.Namespace = k.Namespace

\* The delete without the deleted_at IS NULL that gorm adds: it stamps the
\* soft-deleted rows of the key again.
SoftDelete_Restamp(tgs, k, t) ==
    [i \in DOMAIN tgs |->
        IF MatchesKey(tgs[i], k)
        THEN [tgs[i] EXCEPT !.DeletedAt = t]
        ELSE tgs[i]]

\* db.Where(...).Delete(&models.ImageTag{}): ImageTag has a gorm.DeletedAt,
\* so this is UPDATE image_tags SET deleted_at = now WHERE ... AND
\* deleted_at IS NULL.
SoftDelete(tgs, k, t) ==
    [i \in DOMAIN tgs |->
        IF MatchesKey(tgs[i], k) /\ tgs[i].DeletedAt = 0
        THEN [tgs[i] EXCEPT !.DeletedAt = t]
        ELSE tgs[i]]

----------------------------------------------------------------------------
(* ImageRepository, one call run to completion *)

\* Where a storage failure strikes a call: nowhere, in FirstOrCreate, in
\* the tag insert, in the delete, in the query of GetAllImages, in the
\* first or the second query of GetImageTagHistory.
FailurePoints(op) ==
    CASE op = "UpsertImageTag" -> {"none", "image", "tag"}
      [] op = "DeleteImageTag" -> {"none", "delete"}
      [] op = "GetAllImages" -> {"none", "fetch"}
      [] op = "GetImageTagHistory" -> {"none", "image", "history"}
      [] OTHER -> {"none"}

\* fmt.Errorf("failed to upsert image: %w", err)
ImageError(cause) == "failed to upsert image: " \o cause

\* fmt.Errorf("failed to upsert image tag: %w", err)
TagError(cause) == "failed to upsert image tag: " \o cause

UpsertImageTag(imgs, tgs, a, t, fp) ==
    LET fullName == FullName(a.Repository, a.ImageName)
        foc == IF fp = "image"
               THEN [images |-> imgs, ID |-> 0, err |-> StorageFailure]
               ELSE FirstOrCreate(imgs, a.ImageName, a.Repository, fullName)
    IN IF foc.err # ""
       THEN [images |-> imgs, tags |-> tgs, err |-> ImageError(foc.err)]
       ELSE IF fp = "tag"
       THEN [images |-> foc.images, tags |-> tgs,
             err |-> TagError(StorageFailure)]
       ELSE [images |-> foc.images,
             tags |-> CreateOnConflict(tgs, NewImageTag(foc.ID, a, t)),
             err |-> ""]

DeleteImageTag(imgs, tgs, k, t, fp) ==
    IF fp = "delete"
    THEN [images |-> imgs, tags |-> tgs, err |-> StorageFailure]
    ELSE [images |-> imgs, tags |-> SoftDelete(tgs, k, t), err |-> ""]

----------------------------------------------------------------------------
(* ImageRepository queries *)

\* Preload("Image"): the name of the image a tag row belongs to.
ImageNameOf(imgs, r) == imgs[r.ImageID].Name

\* The query without its namespace condition.
ActiveTags_AnyNamespace(tgs, namespace) ==
    {i \in DOMAIN tgs : tgs[i].DeletedAt = 0}

\* The rows GetAllImages fetches: deleted_at IS NULL, and the namespace
\* when one is given.
ActiveTags(tgs, namespace) ==
    {i \in DOMAIN tgs :
        /\ tgs[i].DeletedAt = 0
        /\ namespace = "" \/ tgs[i].Namespace = namespace}

\* fmt.Sprintf("%s|%s|%s|%s", it.Image.Name, it.ResourceType,
\* it.ResourceName, it.Namespace)
LatestKey(imgs, r) ==
    ImageNameOf(imgs, r) \o "|" \o r.ResourceType \o "|" \o r.ResourceName
        \o "|" \o r.Namespace

\* time.Format(time.RFC3339) of a clock value.
RFC3339(t) == ToString(t)

\* The models.ImageInfo built from one tag row.
ImageInfo(imgs, r) ==
    [Name |-> ImageNameOf(imgs, r), Tag |-> r.Tag,
     ResourceType |-> r.ResourceType, ResourceName |-> r.ResourceName,
     Namespace |-> r.Namespace, Containers |-> <<r.ContainerName>>,
     FirstSeen |-> RFC3339(r.FirstSeen), LastSeen |-> RFC3339(r.LastSeen)]

\* The first loop without its LastSeen.After test: the entry of a key ends
\* as any row of the key.
LatestTagMaps_AnyRow(imgs, tgs, namespace) ==
    LET rows == ActiveTags(tgs, namespace)
        keys == {LatestKey(imgs, tgs[i]) : i \in rows}
        group(k) == {i \in rows : LatestKey(imgs, tgs[i]) = k}
    IN {m \in [keys -> rows] : \A k \in keys : m[k] \in group(k)}

\* What latestTagMap can hold at the end of the first loop.  The query has
\* no ORDER BY: the rows come in any order, and a row replaces the entry of
\* its key only when its LastSeen is strictly later, so the entry of a key
\* ends as any one of the rows of the key with the greatest LastSeen.
LatestTagMaps(imgs, tgs, namespace) ==
    LET rows == ActiveTags(tgs, namespace)
        keys == {LatestKey(imgs, tgs[i]) : i \in rows}
        group(k) == {i \in rows : LatestKey(imgs, tgs[i]) = k}
        latest(k) == {i \in group(k) :
                        \A j \in group(k) : tgs[j].LastSeen <= tgs[i].LastSeen}
    IN {m \in [keys -> rows] : \A k \in keys : m[k] \in latest(k)}

\* fmt.Sprintf("%s|%s|%s|%s|%s", it.Image.Name, it.Tag, it.ResourceType,
\* it.ResourceName, it.Namespace)
InfoKey(imgs, r) ==
    ImageNameOf(imgs, r) \o "|" \o r.Tag \o "|" \o r.ResourceType \o "|"
        \o r.ResourceName \o "|" \o r.Namespace

\* The orders a map range can visit the elements of a set in.
RECURSIVE Orders(_)
Orders(S) ==
    IF S = {} THEN {<<>>}
    ELSE UNION {{<<i>> \o s : s \in Orders(S \ {i})} : i \in S}

\* The results GetAllImages(namespace) can return, each as the set of its
\* rows (the slice is filled in map order).  The second loop ranges over
\* latestTagMap: the first entry visited of an imageMap key makes the row,
\* every later one appends its container name.
GetAllImages(imgs, tgs, namespace) ==
    UNION {
        LET entries == {m[k] : k \in DOMAIN m}
            keys == {InfoKey(imgs, tgs[i]) : i \in entries}
            group(k) == {i \in entries : InfoKey(imgs, tgs[i]) = k}
            info(s) == [ImageInfo(imgs, tgs[s[1]]) EXCEPT
                          !.Containers =
                              [n \in DOMAIN s |-> tgs[s[n]].ContainerName]]
        IN {{info(visit[k]) : k \in keys} :
               visit \in {v \in [keys -> UNION {Orders(group(k)) : k \in keys}] :
                            \A k \in keys : v[k] \in Orders(group(k))}}
        : m \in LatestTagMaps(imgs, tgs, namespace)}

\* db.Where("name = ?", imageName).First(&image): the row with the lowest
\* id, 0 when there is none.
\* The lookup returning the latest Image row of the name.
FirstImageByName_Last(imgs, imageName) ==
    LET hit == {i \in DOMAIN imgs : imgs[i].Name = imageName}
    IN IF hit = {} THEN 0 ELSE CHOOSE i \in hit : \A j \in hit : i >= j

FirstImageByName(imgs, imageName) ==
    LET hit == {i \in DOMAIN imgs : imgs[i].Name = imageName}
    IN IF hit = {} THEN 0 ELSE CHOOSE i \in hit : \A j \in hit : i <= j

\* The history query without Unscoped(): soft-deleted rows are filtered out.
HistoryTags_Scoped(tgs, id, namespace) ==
    {i \in DOMAIN tgs :
        /\ tgs[i].ImageID = id
        /\ tgs[i].DeletedAt = 0
        /\ namespace = "" \/ tgs[i].Namespace = namespace}

\* Unscoped().Where("image_id = ?", image.ID), and the namespace when one is
\* given: soft-deleted rows included.
HistoryTags(tgs, id, namespace) ==
    {i \in DOMAIN tgs :
        /\ tgs[i].ImageID = id
        /\ namespace = "" \/ tgs[i].Namespace = namespace}

\* A tagActiveMap that a soft-deleted row of the tag sets back to false.
TagActive_AllLive(tgs, rows, tag) ==
    \A i \in rows : tgs[i].Tag = tag => tgs[i].DeletedAt = 0

\* tagActiveMap[tag]
TagActive(tgs, rows, tag) ==
    \E i \in rows : tgs[i].Tag = tag /\ tgs[i].DeletedAt = 0

\* The models.ImageTagDetails of row i of the fetched rows.
ImageTagDetails(tgs, rows, i) ==
    [Tag |-> tgs[i].Tag, FirstSeen |-> tgs[i].FirstSeen,
     LastSeen |-> tgs[i].LastSeen, ResourceType |-> tgs[i].ResourceType,
     ResourceName |-> tgs[i].ResourceName, Namespace |-> tgs[i].Namespace,
     Container |-> tgs[i].ContainerName,
     Active |-> TagActive(tgs, rows, tgs[i].Tag)]

\* The query without its Order clause: the rows come in any order.
FirstSeenDesc_Unordered(tgs, rows) == Orders(rows)

\* Order("first_seen DESC"): the orders the rows can come in; rows with equal
\* first_seen come in any order.
RECURSIVE FirstSeenDesc(_, _)
FirstSeenDesc(tgs, rows) ==
    IF rows = {} THEN {<<>>}
    ELSE UNION {{<<i>> \o s : s \in FirstSeenDesc(tgs, rows \ {i})} :
                  i \in {i \in rows :
                            \A j \in rows : tgs[j].FirstSeen <= tgs[i].FirstSeen}}

\* gorm.ErrRecordNotFound, the error of First when no row matches.
RecordNotFound == "record not found"

\* fmt.Errorf("image not found: %w", err)
NotFoundError(cause) == "image not found: " \o cause

\* fmt.Errorf("failed to fetch image tag history: %w", err)
HistoryError(cause) == "failed to fetch image tag history: " \o cause

\* fmt.Errorf("failed to fetch image tags: %w", err)
FetchError(cause) == "failed to fetch image tags: " \o cause

\* The call with an image lookup that needs a non-deleted tag record: an
\* image whose records are all soft-deleted is not found.
GetImageTagHistory_NeedsLiveTag(imgs, tgs, imageName, namespace) ==
    LET id == FirstImageByName(imgs, imageName)
        rows == HistoryTags(tgs, id, namespace)
    IN IF id = 0 \/ ~\E i \in DOMAIN tgs :
                        tgs[i].ImageID = id /\ tgs[i].DeletedAt = 0
       THEN [err |-> NotFoundError(RecordNotFound), Tags |-> {}]
       ELSE [err |-> "",
             Tags |-> {[n \in DOMAIN s |-> ImageTagDetails(tgs, rows, s[n])] :
                          s \in FirstSeenDesc(tgs, rows)}]

\* GetImageTagHistory(imageName, namespace): the error, and the Tags lists
\* the call can return.
GetImageTagHistory(imgs, tgs, imageName, namespace) ==
    LET id == FirstImageByName(imgs, imageName)
        rows == HistoryTags(tgs, id, namespace)
    IN IF id = 0
       THEN [err |-> NotFoundError(RecordNotFound), Tags |-> {}]
       ELSE [err |-> "",
             Tags |-> {[n \in DOMAIN s |-> ImageTagDetails(tgs, rows, s[n])] :
                          s \in FirstSeenDesc(tgs, rows)}]

----------------------------------------------------------------------------
(* ImageService.HandleImageEvent *)

\* The switch without EventTypeUpdate in its first case.
Dispatch_AddOnly(ev) ==
    CASE ev.Type = EventTypeAdd -> "UpsertImageTag"
      [] ev.Type = EventTypeDelete -> "DeleteImageTag"
      [] OTHER -> "none"

\* The switch on event.Type.
Dispatch(ev) ==
    CASE ev.Type \in {EventTypeAdd, EventTypeUpdate} -> "UpsertImageTag"
      [] ev.Type = EventTypeDelete -> "DeleteImageTag"
      [] OTHER -> "none"

\* The arguments HandleImageEvent passes to the repository call.
CallArgs(ev) ==
    IF Dispatch(ev) = "DeleteImageTag" THEN ResourceKey(ev.Id) ELSE ev.Id

\* log.Fatalf in place of log.Printf: an error ends the process.
KeepsRunning_Fatal(err) == err = ""

\* if err != nil { log.Printf(...) }: the process goes on.
KeepsRunning(err) == TRUE

\* The store after the repository call of the event, and the call's error.
Handle(imgs, tgs, ev, t, fp) ==
    CASE Dispatch(ev) = "UpsertImageTag" ->
            UpsertImageTag(imgs, tgs, CallArgs(ev), t, fp)
      [] Dispatch(ev) = "DeleteImageTag" ->
            DeleteImageTag(imgs, tgs, CallArgs(ev), t, fp)
      [] OTHER -> [images |-> imgs, tags |-> tgs, err |-> ""]

NoUpserts == [n |-> 0, first |-> 0, latest |-> 0]

\* The history after a successful UpsertImageTag(a) at time t.
AfterUpsert(ups, a, t) ==
    [ups EXCEPT ![a] = [n |-> IF @.n < 2 THEN @.n + 1 ELSE 2,
                        first |-> IF @.n = 0 THEN t ELSE @.first,
                        latest |-> t]]

\* The history after a successful DeleteImageTag(k).
AfterDelete(ups, k) ==
    [x \in Tuples |-> IF ResourceKey(x) = k THEN NoUpserts ELSE ups[x]]

\* The history after the repository call of ev returned err.
Recorded(ups, ev, t, err) ==
    IF err # "" THEN ups
    ELSE CASE Dispatch(ev) = "UpsertImageTag" -> AfterUpsert(ups, ev.Id, t)
           [] Dispatch(ev) = "DeleteImageTag" ->
                AfterDelete(ups, ResourceKey(ev.Id))
           [] OTHER -> ups

HandleImageEvent(ev, fp) ==
    /\ alive
    /\ nOps < MaxEvents
    /\ LET r == Handle(images, tags, ev, clock, fp)
       IN /\ images' = r.images
          /\ tags' = r.tags
          /\ calls' = IF Dispatch(ev) = "none" THEN <<>>
                      ELSE <<[op |-> Dispatch(ev), args |-> CallArgs(ev),
                              err |-> r.err,
                              changed |-> r.images # images \/ r.tags # tags,
                              again |-> ev = event]>>
          /\ errors' = IF r.err # "" THEN errors + 1 ELSE errors
          /\ alive' = KeepsRunning(r.err)
          /\ upserts' = Recorded(upserts, ev, clock, r.err)
    /\ event' = ev
    /\ nOps' = nOps + 1
    /\ UNCHANGED <<clock, concVars, reply, emitVars,
                 parseVars, stopVars, metricVars>>

----------------------------------------------------------------------------
(* parseImageFull; an image reference is the sequence of its characters *)

\* A split that drops the empty pieces, as strings.FieldsFunc does.
RECURSIVE Split_NonEmpty(_, _)
Split_NonEmpty(s, sep) ==
    IF s = <<>> THEN <<>>
    ELSE IF \A n \in DOMAIN s : s[n] # sep THEN <<s>>
    ELSE LET n == CHOOSE n \in DOMAIN s :
                    s[n] = sep /\ \A m \in 1..(n - 1) : s[m] # sep
         IN (IF n = 1 THEN <<>> ELSE <<SubSeq(s, 1, n - 1)>>)
                \o Split_NonEmpty(SubSeq(s, n + 1, Len(s)), sep)

\* strings.Split(s, sep) for a separator of one character: the pieces
\* between the separators, one piece more than there are separators.
RECURSIVE Split(_, _)
Split(s, sep) ==
    IF \A n \in DOMAIN s : s[n] # sep THEN <<s>>
    ELSE LET n == CHOOSE n \in DOMAIN s :
                    s[n] = sep /\ \A m \in 1..(n - 1) : s[m] # sep
         IN <<SubSeq(s, 1, n - 1)>> \o Split(SubSeq(s, n + 1, Len(s)), sep)

\* The join that leaves the separator out.
RECURSIVE Join_NoSep(_, _)
Join_NoSep(parts, sep) ==
    IF parts = <<>> THEN <<>> ELSE Head(parts) \o Join_NoSep(Tail(parts), sep)

\* strings.Join(parts, sep)
RECURSIVE Join(_, _)
Join(parts, sep) ==
    IF parts = <<>> THEN <<>>
    ELSE IF Len(parts) = 1 THEN parts[1]
    ELSE parts[1] \o <<sep>> \o Join(Tail(parts), sep)

\* No first segment counts as a registry host.
Contains_Never(s, c) == FALSE

\* strings.Contains(s, c) for a c of one character
Contains(s, c) == \E n \in DOMAIN s : s[n] = c

\* The defaults: repository = "docker.io", tag = "latest".
DockerIO == <<"d", "o", "c", "k", "e", "r", ".", "i", "o">>
Latest == <<"l", "a", "t", "e", "s", "t">>

\* The parser taking parts[1] as the tag whenever there is one.
parseImageFull_SecondPart(image) ==
    LET parts == Split(image, ":")
        tag == IF Len(parts) >= 2 THEN parts[2] ELSE Latest
        slashParts == Split(parts[1], "/")
        n == Len(slashParts)
    IN CASE n = 1 ->
              [name |-> slashParts[1], tag |-> tag, repository |-> DockerIO]
         [] n = 2 /\ Contains(slashParts[1], ".") ->
              [name |-> slashParts[2], tag |-> tag,
               repository |-> slashParts[1]]
         [] n = 2 ->
              [name |-> slashParts[2], tag |-> tag,
               repository |-> DockerIO \o <<"/">> \o slashParts[1]]
         [] OTHER ->
              [name |-> slashParts[n], tag |-> tag,
               repository |-> Join(SubSeq(slashParts, 1, n - 1), "/")]

parseImageFull(image) ==
    LET parts == Split(image, ":")
        imagePart == parts[1]
        tag == IF Len(parts) = 2 THEN parts[2] ELSE Latest
        slashParts == Split(imagePart, "/")
        n == Len(slashParts)
    IN CASE n = 1 ->
              [name |-> slashParts[1], tag |-> tag, repository |-> DockerIO]
         [] n = 2 /\ Contains(slashParts[1], ".") ->
              [name |-> slashParts[2], tag |-> tag,
               repository |-> slashParts[1]]
         [] n = 2 ->
              [name |-> slashParts[2], tag |-> tag,
               repository |-> DockerIO \o <<"/">> \o slashParts[1]]
         [] OTHER ->
              [name |-> slashParts[n], tag |-> tag,
               repository |-> Join(SubSeq(slashParts, 1, n - 1), "/")]

\* The string of a sequence of characters.
RECURSIVE Str(_)
Str(cs) == IF cs = <<>> THEN "" ELSE Head(cs) \o Str(Tail(cs))

----------------------------------------------------------------------------
(* InformerManager *)

\* The namespaces argument of NewInformerManager.
NamespaceConfigs ==
    {<<>>, <<"*">>, <<Base.Namespace>>, <<Base.Namespace, "kube-system">>}

\* NewInformerManager: the namespaces field it stores.
NewInformerManager(nss) ==
    IF Len(nss) = 0 \/ (Len(nss) = 1 /\ nss[1] = "*") THEN <<>> ELSE nss

\* The allow-list test without its body: every namespace is watched.
shouldWatchNamespace_All(nss, namespace) == TRUE

shouldWatchNamespace(nss, namespace) ==
    \/ Len(nss) = 0
    \/ \E n \in DOMAIN nss : nss[n] = namespace

\* The regular containers alone.
allContainers_RegularOnly(spec) == spec.Containers

\* allContainers := append(spec.Containers, spec.InitContainers...)
allContainers(spec) == spec.Containers \o spec.InitContainers

\* The ImageEvent of one container, without its Timestamp.
ImageEvent(eventType, k, container) ==
    LET p == parseImageFull(container.Image)
    IN [Type |-> eventType,
        Id |-> [ImageName |-> Str(p.name), Repository |-> Str(p.repository),
                ImageTag |-> Str(p.tag), ResourceType |-> k.ResourceType,
                ResourceName |-> k.ResourceName, Namespace |-> k.Namespace,
                ContainerName |-> container.Name]]

\* handlePodSpecChange: the events it hands to eventHandler, in order.
handlePodSpecChange(nss, eventType, k, spec) ==
    IF ~shouldWatchNamespace(nss, k.Namespace) THEN <<>>
    ELSE [n \in DOMAIN allContainers(spec) |->
            ImageEvent(eventType, k, allContainers(spec)[n])]

\* An extraction that lists the init containers first.
extractImagesFromSpec_InitFirst(spec) ==
    [n \in DOMAIN (spec.InitContainers \o spec.Containers) |->
        (spec.InitContainers \o spec.Containers)[n].Image]

extractImagesFromSpec(spec) ==
    [n \in DOMAIN allContainers(spec) |-> allContainers(spec)[n].Image]

hasImageChanged(oldSpec, newSpec) ==
    LET oldImages == extractImagesFromSpec(oldSpec)
        newImages == extractImagesFromSpec(newSpec)
    IN \/ Len(oldImages) # Len(newImages)
       \/ \E i \in DOMAIN oldImages : oldImages[i] # newImages[i]

----------------------------------------------------------------------------
(* The repository called directly, one call after the other *)

Upsert(a, fp) ==
    /\ nOps < MaxOps
    /\ LET r == UpsertImageTag(images, tags, a, clock, fp)
       IN /\ images' = r.images
          /\ tags' = r.tags
          /\ upserts' = IF r.err = "" THEN AfterUpsert(upserts, a, clock)
                        ELSE upserts
    /\ nOps' = nOps + 1
    /\ UNCHANGED <<clock, event, calls, errors, alive, concVars, reply, emitVars,
                 parseVars, stopVars, metricVars>>

Delete(k, fp) ==
    /\ nOps < MaxOps
    /\ LET r == DeleteImageTag(images, tags, k, clock, fp)
       IN /\ images' = r.images
          /\ tags' = r.tags
          /\ upserts' = IF r.err = "" THEN AfterDelete(upserts, k)
                        ELSE upserts
    /\ nOps' = nOps + 1
    /\ UNCHANGED <<clock, event, calls, errors, alive, concVars, reply, emitVars,
                 parseVars, stopVars, metricVars>>

\* Time passes.
Tick ==
    /\ clock < MaxClock
    /\ clock' = clock + 1
    /\ UNCHANGED <<images, tags, seqVars, concVars, reply, emitVars,
                 parseVars, stopVars, metricVars>>

NoEvent == [Type |-> "", Id |-> Base]
NoCall == [op |-> "", args |-> Base]
NoReply == [op |-> "", name |-> "", namespace |-> "", err |-> "", rows |-> {}]

NoParse ==
    [called |-> FALSE, panic |-> FALSE, name |-> <<>>, tag |-> <<>>,
     repository |-> <<>>]

NoTrigger == [kind |-> "", key |-> ResourceKey(Base), old |-> <<>>, new |-> <<>>]

\* Nobody has run Stop.
NoStopCalls == [caller |-> FALSE, goroutine |-> FALSE]

\* A GaugeVec without samples: after NewGaugeVec, and after Reset.
NoSamples == [k \in {} |-> 0]

\* The state after main has built the repository, the service and an
\* InformerManager for the given namespaces argument: the database is
\* migrated and empty, no object is cached.
InitWith(nss) ==
    /\ namespaces = NewInformerManager(nss)
    /\ cluster = [k \in WorkloadKeys |-> <<>>]
    /\ trigger = NoTrigger
    /\ emitted = <<>>
    /\ images = <<>>
    /\ tags = <<>>
    /\ clock = 1
    /\ event = NoEvent
    /\ calls = <<>>
    /\ nOps = 0
    /\ errors = 0
    /\ alive = TRUE
    /\ upserts = [x \in Tuples |-> NoUpserts]
    /\ pc = [p \in Procs |-> "idle"]
    /\ task = [p \in Procs |-> NoCall]
    /\ imageID = [p \in Procs |-> 0]
    /\ now = [p \in Procs |-> 0]
    /\ result = [p \in Procs |-> ""]
    /\ nCalls = 0
    /\ reply = NoReply
    /\ imageRef = <<>>
    /\ parsed = NoParse
    /\ ctxDone = FALSE
    /\ stopCh = "open"
    /\ stopCalls = NoStopCalls
    /\ imageVersionGauge = NoSamples

Init == InitWith(<<>>)

Next ==
    \/ \E a \in Tuples : \E fp \in FailurePoints("UpsertImageTag") :
            Upsert(a, fp)
    \/ \E k \in Keys : \E fp \in FailurePoints("DeleteImageTag") :
            Delete(k, fp)
    \/ Tick

Spec == Init /\ [][Next]_vars

NextRec ==
    \/ \E ev \in Events : \E fp \in FailurePoints(Dispatch(ev)) :
            HandleImageEvent(ev, fp)
    \/ Tick

SpecRec == Init /\ [][NextRec]_vars

----------------------------------------------------------------------------
(* The repository called by several callbacks at once, one SQL statement   *)
(* per step                                                                *)

\* The calls that run concurrently: the upserts of FewTuples and the
\* deletes of their resources.
Calls ==
    {[op |-> "UpsertImageTag", args |-> t] : t \in FewTuples}
        \cup {[op |-> "DeleteImageTag", args |-> ResourceKey(t)] : t \in FewTuples}

\* A callback enters UpsertImageTag or DeleteImageTag.  The callbacks are
\* alike: the call takes the lowest slot that is idle.
Begin(p, c) ==
    /\ pc[p] = "idle"
    /\ \A q \in Procs : q < p => pc[q] # "idle"
    /\ nCalls < MaxCalls
    /\ nCalls' = nCalls + 1
    /\ task' = [task EXCEPT ![p] = c]
    /\ pc' = [pc EXCEPT ![p] = IF c.op = "UpsertImageTag" THEN "find"
                               ELSE "delete"]
    /\ imageID' = [imageID EXCEPT ![p] = 0]
    /\ now' = [now EXCEPT ![p] = 0]
    /\ result' = [result EXCEPT ![p] = "running"]
    /\ UNCHANGED <<images, tags, clock, seqVars, reply, emitVars,
                 parseVars, stopVars, metricVars>>

\* The call returns err; its locals are gone.
Return(p, err) ==
    /\ pc' = [pc EXCEPT ![p] = "idle"]
    /\ result' = [result EXCEPT ![p] = err]
    /\ task' = [task EXCEPT ![p] = NoCall]
    /\ imageID' = [imageID EXCEPT ![p] = 0]
    /\ now' = [now EXCEPT ![p] = 0]

\* FirstOrCreate, its SELECT.
FindStep(p, fail) ==
    /\ pc[p] = "find"
    /\ LET a == task[p].args
           id == FindImage(images, a.ImageName, a.Repository,
                           FullName(a.Repository, a.ImageName))
       IN IF fail
          THEN Return(p, ImageError(StorageFailure))
          ELSE /\ pc' = [pc EXCEPT ![p] = IF id # 0 THEN "now" ELSE "create"]
               /\ imageID' = [imageID EXCEPT ![p] = id]
               /\ UNCHANGED <<result, task, now>>
    /\ UNCHANGED <<images, tags, clock, seqVars, nCalls, reply, emitVars,
                 parseVars, stopVars, metricVars>>

\* FirstOrCreate, its INSERT when the SELECT found no row.
CreateStep(p, fail) ==
    /\ pc[p] = "create"
    /\ LET a == task[p].args
           r == IF fail
                THEN [images |-> images, ID |-> 0, err |-> StorageFailure]
                ELSE CreateImage(images, a.ImageName, a.Repository,
                                 FullName(a.Repository, a.ImageName))
       IN IF r.err # ""
          THEN /\ Return(p, ImageError(r.err))
               /\ UNCHANGED images
          ELSE /\ images' = r.images
               /\ imageID' = [imageID EXCEPT ![p] = r.ID]
               /\ pc' = [pc EXCEPT ![p] = "now"]
               /\ UNCHANGED <<result, task, now>>
    /\ UNCHANGED <<tags, clock, seqVars, nCalls, reply, emitVars,
                 parseVars, stopVars, metricVars>>

\* now := time.Now().UTC()
NowStep(p) ==
    /\ pc[p] = "now"
    /\ now' = [now EXCEPT ![p] = clock]
    /\ pc' = [pc EXCEPT ![p] = "insert"]
    /\ UNCHANGED <<images, tags, clock, seqVars, task, imageID, result, nCalls, reply, emitVars,
                 parseVars, stopVars, metricVars>>

\* The INSERT ... ON CONFLICT of the tag row.
InsertStep(p, fail) ==
    /\ pc[p] = "insert"
    /\ IF fail
       THEN /\ Return(p, TagError(StorageFailure))
            /\ UNCHANGED tags
       ELSE /\ tags' = CreateOnConflict(tags,
                           NewImageTag(imageID[p], task[p].args, now[p]))
            /\ Return(p, "")
    /\ UNCHANGED <<images, clock, seqVars, nCalls, reply, emitVars,
                 parseVars, stopVars, metricVars>>

\* The UPDATE ... SET deleted_at of DeleteImageTag.
DeleteStep(p, fail) ==
    /\ pc[p] = "delete"
    /\ IF fail
       THEN /\ Return(p, StorageFailure)
            /\ UNCHANGED tags
       ELSE /\ tags' = SoftDelete(tags, task[p].args, clock)
            /\ Return(p, "")
    /\ UNCHANGED <<images, clock, seqVars, nCalls, reply, emitVars,
                 parseVars, stopVars, metricVars>>

NextConc ==
    \/ \E p \in Procs : \E c \in Calls : Begin(p, c)
    \/ \E p \in Procs : \E fail \in BOOLEAN : FindStep(p, fail)
    \/ \E p \in Procs : \E fail \in BOOLEAN : CreateStep(p, fail)
    \/ \E p \in Procs : NowStep(p)
    \/ \E p \in Procs : \E fail \in BOOLEAN : InsertStep(p, fail)
    \/ \E p \in Procs : \E fail \in BOOLEAN : DeleteStep(p, fail)
    \/ Tick

SpecConc == Init /\ [][NextConc]_vars

----------------------------------------------------------------------------
(* Shutdown: the signal handler of main cancels the context, the goroutine *)
(* of Start calls Stop, and main returns when app.Listen returns           *)

\* An informer that runs delivers an event: a callback enters the
\* repository.  The informers run until stopCh is closed.
Accept(p, c) ==
    /\ alive
    /\ stopCh = "open"
    /\ Begin(p, c)

\* The next statement of the repository call of callback p.
Step(p) ==
    /\ alive
    /\ \/ \E fail \in BOOLEAN : FindStep(p, fail)
       \/ \E fail \in BOOLEAN : CreateStep(p, fail)
       \/ NowStep(p)
       \/ \E fail \in BOOLEAN : InsertStep(p, fail)
       \/ \E fail \in BOOLEAN : DeleteStep(p, fail)

\* The signal arrives: cancel().
Cancel ==
    /\ alive
    /\ ~ctxDone
    /\ ctxDone' = TRUE
    /\ UNCHANGED <<images, tags, clock, seqVars, concVars, reply, emitVars,
                   parseVars, stopCh, stopCalls, metricVars>>

\* go func() { <-ctx.Done(); im.Stop() }(): the goroutine runs Stop once,
\* close(im.stopCh).  Closing a closed channel panics, and the panic ends
\* the process.
Stop ==
    /\ alive
    /\ ctxDone
    /\ ~stopCalls.goroutine
    /\ stopCalls' = [stopCalls EXCEPT !.goroutine = TRUE]
    /\ stopCh' = "closed"
    /\ alive' = (stopCh = "open")
    /\ UNCHANGED <<images, tags, clock, event, calls, nOps, errors, upserts,
                   concVars, reply, emitVars, parseVars, ctxDone, metricVars>>

\* A caller of the InformerManager runs im.Stop(): close(im.stopCh), with
\* the same panic on a closed channel.
StopCall ==
    /\ alive
    /\ ~stopCalls.caller
    /\ stopCalls' = [stopCalls EXCEPT !.caller = TRUE]
    /\ stopCh' = "closed"
    /\ alive' = (stopCh = "open")
    /\ UNCHANGED <<images, tags, clock, event, calls, nOps, errors, upserts,
                   concVars, reply, emitVars, parseVars, ctxDone, metricVars>>

\* After cancel() the signal handler calls app.Shutdown(), app.Listen
\* returns and main returns: the process exits with all its goroutines,
\* whatever they are doing.
Exit ==
    /\ alive
    /\ ctxDone
    /\ alive' = FALSE
    /\ UNCHANGED <<images, tags, clock, event, calls, nOps, errors, upserts,
                   concVars, reply, emitVars, parseVars, stopVars, metricVars>>

NextStop ==
    \/ \E p \in Procs : \E c \in Calls : Accept(p, c)
    \/ \E p \in Procs : Step(p)
    \/ Cancel
    \/ Stop
    \/ Exit
    \/ Tick

\* Every goroutine that can run does run: the callbacks, the goroutine of
\* Start and main.
FairStop ==
    /\ \A p \in Procs : WF_vars(Step(p))
    /\ WF_vars(Stop)
    /\ WF_vars(Exit)

SpecStop == Init /\ [][NextStop]_vars /\ FairStop

\* Stop is exported: besides the goroutine of Start, any holder of the
\* InformerManager can call it.
NextStopCalls ==
    \/ NextStop
    \/ StopCall

SpecStopCalls == Init /\ [][NextStopCalls]_vars

----------------------------------------------------------------------------
(* The queries of the API, each against a store that repository calls have *)
(* built; the model follows one request and keeps its reply               *)

\* The namespace query parameter: none, or a namespace.
Namespaces == {"", Base.Namespace, Other.Namespace}

\* The image names asked for: one that is observed, one that never is.
ImageNames == {Base.ImageName, "does-not-exist"}

\* GetAllImages(namespace) returns.
QueryAllImages(namespace, fp) ==
    /\ reply = NoReply
    /\ reply' \in
         IF fp = "fetch"
         THEN {[op |-> "GetAllImages", name |-> "", namespace |-> namespace,
                err |-> FetchError(StorageFailure), rows |-> {}]}
         ELSE {[op |-> "GetAllImages", name |-> "", namespace |-> namespace,
                err |-> "", rows |-> res] :
                   res \in GetAllImages(images, tags, namespace)}
    /\ UNCHANGED <<images, tags, clock, seqVars, concVars, emitVars,
                 parseVars, stopVars, metricVars>>

\* GetImageTagHistory(imageName, namespace) returns.
QueryImageTagHistory(imageName, namespace, fp) ==
    /\ reply = NoReply
    /\ LET h == GetImageTagHistory(images, tags, imageName, namespace)
           failed(e) == [op |-> "GetImageTagHistory", name |-> imageName,
                         namespace |-> namespace, err |-> e, rows |-> <<>>]
       IN reply' \in
            IF fp = "image" THEN {failed(NotFoundError(StorageFailure))}
            ELSE IF h.err # "" THEN {failed(h.err)}
            ELSE IF fp = "history" THEN {failed(HistoryError(StorageFailure))}
            ELSE {[op |-> "GetImageTagHistory", name |-> imageName,
                   namespace |-> namespace, err |-> "", rows |-> s] :
                      s \in h.Tags}
    /\ UNCHANGED <<images, tags, clock, seqVars, concVars, emitVars,
                 parseVars, stopVars, metricVars>>

NextQuery ==
    \/ \E a \in Tuples : \E fp \in FailurePoints("UpsertImageTag") :
            reply = NoReply /\ nOps < MaxWrites /\ Upsert(a, fp)
    \/ \E k \in Keys : \E fp \in FailurePoints("DeleteImageTag") :
            reply = NoReply /\ nOps < MaxWrites /\ Delete(k, fp)
    \/ reply = NoReply /\ Tick
    \/ \E ns \in Namespaces : \E fp \in FailurePoints("GetAllImages") :
            QueryAllImages(ns, fp)
    \/ \E name \in ImageNames : \E ns \in Namespaces :
            \E fp \in FailurePoints("GetImageTagHistory") :
                QueryImageTagHistory(name, ns, fp)

SpecQuery == Init /\ [][NextQuery]_vars

----------------------------------------------------------------------------
(* GET /metrics: updateMetrics fills the gauges from GetImages(ctx, "")    *)

\* ImageService.GetImages wraps the error of the repository.
GetImagesError(e) == "failed to get images: " \o e

\* versionCounts after the loop over images.Images, as the samples the
\* last loop sets: one count per (image name, namespace), incremented
\* once for every row.
VersionCounts(rows) ==
    [k \in {<<r.Name, r.Namespace>> : r \in rows} |->
        Cardinality({r \in rows : <<r.Name, r.Namespace>> = k})]

\* updateMetrics(): the gauges are reset, and when GetImages fails that
\* is all; the model keeps what GetImages returned in reply.
UpdateMetrics(fp) ==
    /\ reply = NoReply
    /\ IF fp = "fetch"
       THEN /\ reply' = [op |-> "updateMetrics", name |-> "",
                         namespace |-> "",
                         err |-> GetImagesError(FetchError(StorageFailure)),
                         rows |-> {}]
            /\ imageVersionGauge' = NoSamples
       ELSE \E res \in GetAllImages(images, tags, "") :
                /\ reply' = [op |-> "updateMetrics", name |-> "",
                             namespace |-> "", err |-> "", rows |-> res]
                /\ imageVersionGauge' = VersionCounts(res)
    /\ UNCHANGED <<images, tags, clock, seqVars, concVars, emitVars,
                   parseVars, stopVars>>

NextMetrics ==
    \/ \E a \in Tuples : \E fp \in FailurePoints("UpsertImageTag") :
            reply = NoReply /\ nOps < MaxWrites /\ Upsert(a, fp)
    \/ \E k \in Keys : \E fp \in FailurePoints("DeleteImageTag") :
            reply = NoReply /\ nOps < MaxWrites /\ Delete(k, fp)
    \/ reply = NoReply /\ Tick
    \/ \E fp \in FailurePoints("GetAllImages") : UpdateMetrics(fp)

SpecMetrics == Init /\ [][NextMetrics]_vars

----------------------------------------------------------------------------
(* The informer callbacks: every callback runs handlePodSpecChange, which  *)
(* calls eventHandler, that is HandleImageEvent, once per container        *)

Nginx119 == <<"n", "g", "i", "n", "x", ":", "1", ".", "1", "9">>
Nginx120 == <<"n", "g", "i", "n", "x", ":", "1", ".", "2", "0">>
GcrNginx == <<"g", "c", "r", ".", "i", "o", "/", "n", "g", "i", "n", "x">>
Busybox == <<"b", "u", "s", "y", "b", "o", "x">>

\* corev1.Container: its Name and Image.
Container(name, image) == [Name |-> name, Image |-> image]

\* corev1.PodSpec: its Containers and InitContainers.
PodSpec(containers, initContainers) ==
    [Containers |-> containers, InitContainers |-> initContainers]

\* The pod templates of the workloads: no container; one container, with
\* one tag, with another tag, from another registry; the container and an
\* init container; the same two images in two regular containers.
PodSpecs ==
    {PodSpec(<<>>, <<>>),
     PodSpec(<<Container("nginx", Nginx119)>>, <<>>),
     PodSpec(<<Container("nginx", Nginx120)>>, <<>>),
     PodSpec(<<Container("nginx", GcrNginx)>>, <<>>),
     PodSpec(<<Container("nginx", Nginx119)>>, <<Container("init", Busybox)>>),
     PodSpec(<<Container("nginx", Nginx119), Container("init", Busybox)>>,
             <<>>)}

\* The storage failures during one callback: none, or one in the
\* repository call of one of its events.
FailurePatterns(evs) ==
    {fps \in [DOMAIN evs -> {"none", "image", "tag", "delete"}] :
        /\ \A n \in DOMAIN evs : fps[n] \in FailurePoints(Dispatch(evs[n]))
        /\ Cardinality({n \in DOMAIN evs : fps[n] # "none"}) <= 1}

\* eventHandler called for the events in turn: the store and the error
\* after each HandleImageEvent.
RECURSIVE HandleAll(_, _, _, _, _)
HandleAll(imgs, tgs, evs, t, fps) ==
    IF evs = <<>> THEN <<>>
    ELSE LET r == Handle(imgs, tgs, Head(evs), t, Head(fps))
         IN <<[images |-> r.images, tags |-> r.tags, err |-> r.err,
               changed |-> r.images # imgs \/ r.tags # tgs]>>
                \o HandleAll(r.images, r.tags, Tail(evs), t, Tail(fps))

\* The objects the factory lists and watches: with one namespace in the
\* list, informers.WithNamespace keeps it to that namespace.
Informed(nss, k) == Len(nss) = 1 => k.Namespace = nss[1]

\* A callback hands evs to eventHandler, one HandleImageEvent per event.
Deliver(evs) ==
    /\ alive
    /\ nOps < MaxTriggers
    /\ nOps' = nOps + 1
    /\ emitted' = evs
    /\ \E fps \in FailurePatterns(evs) :
         LET rs == HandleAll(images, tags, evs, clock, fps)
             last == Len(evs)
         IN IF evs = <<>>
            THEN UNCHANGED <<images, tags, event, calls, errors, alive>>
            ELSE /\ images' = rs[last].images
                 /\ tags' = rs[last].tags
                 /\ event' = evs[last]
                 /\ calls' = <<[op |-> Dispatch(evs[last]),
                                args |-> CallArgs(evs[last]),
                                err |-> rs[last].err,
                                changed |-> rs[last].changed,
                                again |-> evs[last] = (IF last > 1
                                                       THEN evs[last - 1]
                                                       ELSE event)]>>
                 /\ errors' = errors + Cardinality({n \in DOMAIN rs :
                                                      rs[n].err # ""})
                 /\ alive' = \A n \in DOMAIN rs : KeepsRunning(rs[n].err)
    /\ UNCHANGED <<clock, upserts, concVars, reply, namespaces, parseVars,
                   stopVars, metricVars>>

\* AddFunc: a workload appears.
AddFunc(k, spec) ==
    /\ cluster[k] = <<>>
    /\ Informed(namespaces, k)
    /\ Deliver(handlePodSpecChange(namespaces, EventTypeAdd, k, spec))
    /\ cluster' = [cluster EXCEPT ![k] = <<spec>>]
    /\ trigger' = [kind |-> "CREATED", key |-> k, old |-> <<>>,
                   new |-> <<spec>>]

\* UpdateFunc: a workload changes, or is delivered again as it is.
UpdateFunc(k, spec) ==
    /\ cluster[k] # <<>>
    /\ Informed(namespaces, k)
    /\ Deliver(IF hasImageChanged(cluster[k][1], spec)
               THEN handlePodSpecChange(namespaces, EventTypeUpdate, k, spec)
               ELSE <<>>)
    /\ cluster' = [cluster EXCEPT ![k] = <<spec>>]
    /\ trigger' = [kind |-> "MODIFIED", key |-> k, old |-> cluster[k],
                   new |-> <<spec>>]

\* DeleteFunc: a workload disappears.
DeleteFunc(k) ==
    /\ cluster[k] # <<>>
    /\ Informed(namespaces, k)
    /\ Deliver(handlePodSpecChange(namespaces, EventTypeDelete, k,
                                   cluster[k][1]))
    /\ cluster' = [cluster EXCEPT ![k] = <<>>]
    /\ trigger' = [kind |-> "REMOVED", key |-> k, old |-> cluster[k],
                   new |-> <<>>]

InitEmit == \E nss \in NamespaceConfigs : InitWith(nss)

NextEmit ==
    \/ \E k \in WorkloadKeys : \E spec \in PodSpecs : AddFunc(k, spec)
    \/ \E k \in WorkloadKeys : \E spec \in PodSpecs : UpdateFunc(k, spec)
    \/ \E k \in WorkloadKeys : DeleteFunc(k)
    \/ Tick

SpecEmit == InitEmit /\ [][NextEmit]_vars

----------------------------------------------------------------------------
(* parseImageFull called on image references *)

\* The characters of the references: letters, and the three characters
\* parseImageFull looks for.
Chars == {"a", "b", ".", ":", "/"}

\* Every string of up to MaxLen characters, the empty string included.
ShortRefs == UNION {[1..n -> Chars] : n \in 0..MaxLen}

LibraryNginx ==
    <<"l", "i", "b", "r", "a", "r", "y", "/", "n", "g", "i", "n", "x",
    ":", "1", ".", "1", "9">>

GcrApp ==
    <<"g", "c", "r", ".", "i", "o", "/", "m", "y", "-", "p", "r", "o",
    "j", "e", "c", "t", "/", "a", "p", "p", ":", "v", "1", ".", "0">>

\* A reference whose registry host has a port.
HostPortApp ==
    <<"h", "o", "s", "t", ":", "5", "0", "0", "0", "/", "t", "e", "a", "m",
    "/", "a", "p", "p", ":", "v", "1">>

\* The references of the examples and of the pod templates.
ExampleRefs ==
    {Nginx119, Nginx120, GcrNginx, Busybox, LibraryNginx, GcrApp, HostPortApp}

ImageRefs == ShortRefs \cup ExampleRefs

\* An index expression of parseImageFull is out of range: parts[0], or in
\* the last branch slashParts[len(slashParts)-1], of an empty slice.
IndexOutOfRange(ref) ==
    \/ Len(Split(ref, ":")) = 0
    \/ Len(Split(Split(ref, ":")[1], "/")) = 0

\* One call of parseImageFull: it returns its three results or panics.
ParseImage(ref) ==
    /\ ~parsed.called
    /\ imageRef' = ref
    /\ parsed' = IF IndexOutOfRange(ref)
                 THEN [NoParse EXCEPT !.called = TRUE, !.panic = TRUE]
                 ELSE [called |-> TRUE, panic |-> FALSE,
                       name |-> parseImageFull(ref).name,
                       tag |-> parseImageFull(ref).tag,
                       repository |-> parseImageFull(ref).repository]
    /\ UNCHANGED <<images, tags, clock, seqVars, concVars, reply, emitVars,
                   stopVars, metricVars>>

NextParse == \E ref \in ImageRefs : ParseImage(ref)

SpecParse == Init /\ [][NextParse]_vars

----------------------------------------------------------------------------
(* Properties *)

\* The ImageTagRecords of an identity tuple in a store.
RecordsIn(imgs, tgs, t) ==
    {i \in DOMAIN tgs :
        /\ imgs[tgs[i].ImageID].FullName = FullName(t.Repository, t.ImageName)
        /\ tgs[i].Tag = t.ImageTag
        /\ tgs[i].ResourceType = t.ResourceType
        /\ tgs[i].ResourceName = t.ResourceName
        /\ tgs[i].Namespace = t.Namespace
        /\ tgs[i].ContainerName = t.ContainerName}

LiveRecordsIn(imgs, tgs, t) ==
    {i \in RecordsIn(imgs, tgs, t) : tgs[i].DeletedAt = 0}

RecordsOf(t) == RecordsIn(images, tags, t)
LiveRecordsOf(t) == LiveRecordsIn(images, tags, t)

\* C1: after two or more successful UpsertImageTag calls of one tuple with
\* no DeleteImageTag of its resource in between, the tuple has exactly one
\* non-deleted record; its FirstSeen is the time of the first of the calls
\* and its LastSeen the time of the latest.
C1_IdempotentUpsert ==
    \A t \in Tuples :
        upserts[t].n >= 2 =>
            /\ Cardinality(LiveRecordsOf(t)) = 1
            /\ \A i \in LiveRecordsOf(t) :
                /\ tags[i].FirstSeen = upserts[t].first
                /\ tags[i].LastSeen = upserts[t].latest

\* C2: no two non-deleted ImageTagRecords have the same (imageId, tag,
\* resourceType, resourceName, namespace, containerName), in every state of
\* every interleaving of upserts and deletes.
C2_UniqueLiveTuple ==
    \A i \in DOMAIN tags : \A j \in DOMAIN tags :
        (i # j /\ tags[i].DeletedAt = 0 /\ tags[j].DeletedAt = 0)
            => ~SameIndexKey(tags[i], tags[j])

\* A tuple was upserted again while its record was live: the record is
\* still the only one of its tuple.
C2_Witness ==
    \E i \in DOMAIN tags :
        /\ tags[i].DeletedAt = 0
        /\ tags[i].LastSeen > tags[i].FirstSeen
        /\ \E p \in Procs : result[p] = ""

\* The inventory rows of every result of listCurrentInventory carry the
\* resource of tuple t.
InInventory(imgs, tgs, t) ==
    \A res \in GetAllImages(imgs, tgs, "") :
        \E row \in res :
            /\ row.ResourceType = t.ResourceType
            /\ row.ResourceName = t.ResourceName
            /\ row.Namespace = t.Namespace

\* C3: an UpsertImageTag of a tuple whose record was soft-deleted makes the
\* tuple present again: it has a non-deleted record and the inventory has
\* a row for its resource.
C3_PresentAfterReobservation ==
    [][\A t \in Tuples :
        (Upsert(t, "none") /\ RecordsOf(t) # {} /\ LiveRecordsOf(t) = {})
            => /\ LiveRecordsOf(t)' # {}
               /\ InInventory(images', tags', t)]_vars

\* C4: an UpsertImageTag of a tuple whose only record is soft-deleted
\* appends a row with FirstSeen = LastSeen = the time of the call and
\* leaves every existing row as it was.
C4_RevivalInsertsFreshRow ==
    [][\A t \in Tuples :
        (Upsert(t, "none") /\ RecordsOf(t) # {} /\ LiveRecordsOf(t) = {})
            => /\ Len(tags') = Len(tags) + 1
               /\ \A i \in DOMAIN tags : tags'[i] = tags[i]
               /\ tags'[Len(tags')].FirstSeen = clock
               /\ tags'[Len(tags')].LastSeen = clock
               /\ tags'[Len(tags')].DeletedAt = 0
               /\ Cardinality(RecordsOf(t)') = 2]_vars

\* The entry of tag row i in a history list.
HistoryEntry(tgs, i, active) ==
    [Tag |-> tgs[i].Tag, FirstSeen |-> tgs[i].FirstSeen,
     LastSeen |-> tgs[i].LastSeen, ResourceType |-> tgs[i].ResourceType,
     ResourceName |-> tgs[i].ResourceName, Namespace |-> tgs[i].Namespace,
     Container |-> tgs[i].ContainerName, Active |-> active]

\* C5: a DeleteImageTag of a resource with live records leaves no inventory
\* row for the resource, and the history of the image (asked by the name
\* that resolves to it) still lists each of these records, with
\* active = false when no live record of the image carries the tag.
C5_SoftDeleteKeepsHistory ==
    [][\A k \in Keys :
        (Delete(k, "none") /\ \E i \in DOMAIN tags :
                                 MatchesKey(tags[i], k) /\ tags[i].DeletedAt = 0)
            => /\ \A res \in GetAllImages(images', tags', "") :
                    \A row \in res :
                        ~MatchesKey(row, k)
               /\ \A i \in DOMAIN tags :
                    (/\ MatchesKey(tags[i], k)
                     /\ tags[i].DeletedAt = 0
                     /\ FirstImageByName(images', images'[tags[i].ImageID].Name)
                            = tags[i].ImageID
                     /\ ~\E j \in DOMAIN tags' :
                            /\ tags'[j].ImageID = tags[i].ImageID
                            /\ tags'[j].Tag = tags[i].Tag
                            /\ tags'[j].DeletedAt = 0)
                    => LET h == GetImageTagHistory(images', tags',
                                    images'[tags[i].ImageID].Name, "")
                       IN /\ h.err = ""
                          /\ \A s \in h.Tags :
                                \E n \in DOMAIN s :
                                    s[n] = HistoryEntry(tags, i, FALSE)]_vars

\* A record was soft-deleted and its tag is carried by no live record of
\* its image, which has the lowest id of its name.
C5_Witness ==
    \E i \in DOMAIN tags :
        /\ tags[i].DeletedAt # 0
        /\ FirstImageByName(images, images[tags[i].ImageID].Name) = tags[i].ImageID
        /\ ~\E j \in DOMAIN tags :
                /\ tags[j].ImageID = tags[i].ImageID
                /\ tags[j].Tag = tags[i].Tag
                /\ tags[j].DeletedAt = 0
        /\ \E j \in DOMAIN tags : tags[j].DeletedAt = 0

\* C6: an UpsertImageTag that runs while another one of the same image and
\* tag and another resourceName is in progress, and that no storage
\* failure hits, returns nil; its image then has exactly one row and, when
\* the tuple had no soft-deleted record, the tuple has exactly one live
\* record.
C6_ConcurrentUpsertsSucceed ==
    [][\A p \in Procs :
        (/\ task[p].op = "UpsertImageTag"
         /\ pc[p] # "idle"
         /\ pc'[p] = "idle"
         /\ \E q \in Procs :
                /\ task[q].op = "UpsertImageTag"
                /\ task[q].args.ImageName = task[p].args.ImageName
                /\ task[q].args.Repository = task[p].args.Repository
                /\ task[q].args.ImageTag = task[p].args.ImageTag
                /\ task[q].args.ResourceName # task[p].args.ResourceName
         /\ result'[p] \notin {ImageError(StorageFailure),
                               TagError(StorageFailure)})
            => /\ result'[p] = ""
               /\ Cardinality({i \in DOMAIN images' :
                      images'[i].FullName =
                          FullName(task[p].args.Repository,
                                   task[p].args.ImageName)}) = 1
               /\ (RecordsOf(task[p].args) = LiveRecordsOf(task[p].args))
                    => Cardinality(LiveRecordsIn(images', tags',
                                                 task[p].args)) = 1]_vars

\* C7: every Image row has an ImageTagRecord: no state shows the Image row
\* of an UpsertImageTag without the tag row of the same call.
C7_UpsertAtomic ==
    \A i \in DOMAIN images : \E j \in DOMAIN tags : tags[j].ImageID = i

\* C8: HandleImageEvent makes one UpsertImageTag call with the seven
\* identity fields of an ADD or UPDATE event, one DeleteImageTag call with
\* the (resourceType, resourceName, namespace) of a DELETE event, and no
\* call for any other kind, which leaves the store as it was.
C8_Dispatch ==
    [][nOps' = nOps + 1 =>
        CASE event'.Type \in {"ADD", "UPDATE"} ->
                /\ Len(calls') = 1
                /\ calls'[1].op = "UpsertImageTag"
                /\ calls'[1].args = event'.Id
                /\ \E fp \in FailurePoints("UpsertImageTag") :
                     [images |-> images', tags |-> tags',
                      err |-> calls'[1].err]
                        = UpsertImageTag(images, tags, event'.Id, clock, fp)
          [] event'.Type = "DELETE" ->
                /\ Len(calls') = 1
                /\ calls'[1].op = "DeleteImageTag"
                /\ calls'[1].args =
                     [ResourceType |-> event'.Id.ResourceType,
                      ResourceName |-> event'.Id.ResourceName,
                      Namespace |-> event'.Id.Namespace]
                /\ \E fp \in FailurePoints("DeleteImageTag") :
                     [images |-> images', tags |-> tags',
                      err |-> calls'[1].err]
                        = DeleteImageTag(images, tags, calls'[1].args, clock, fp)
          [] OTHER ->
                /\ calls' = <<>>
                /\ images' = images
                /\ tags' = tags]_vars

\* A DELETE event removed a record whose tag is not the tag of the event.
C8_Witness ==
    /\ event.Type = "DELETE"
    /\ Len(calls) = 1
    /\ calls[1].err = ""
    /\ \E i \in DOMAIN tags :
        /\ MatchesKey(tags[i], calls[1].args)
        /\ tags[i].DeletedAt # 0
        /\ tags[i].Tag # event.Id.ImageTag

\* C9: after a repository call has failed the reconciler is still running
\* and accepts every next event.
C9_FailureNotPropagated ==
    errors > 0 =>
        /\ alive
        /\ nOps < MaxEvents =>
              \A ev \in Events : ENABLED HandleImageEvent(ev, "none")

\* An event was applied to the store after the call of an earlier event
\* had failed.
C9_Witness ==
    /\ errors > 0
    /\ Len(calls) = 1
    /\ calls[1].err = ""
    /\ \E i \in DOMAIN tags : tags[i].FirstSeen = clock

\* C10: DeleteImageTag sets DeletedAt on every non-deleted record of the
\* resource key, whatever its tag, image or container, and changes nothing
\* else of these records, no record of another key and no Image row.
C10_DeleteFrame ==
    [][\A k \in Keys :
        Delete(k, "none") =>
            /\ images' = images
            /\ DOMAIN tags' = DOMAIN tags
            /\ \A i \in DOMAIN tags :
                LET same == /\ tags[i].ResourceType = k.ResourceType
                            /\ tags[i].ResourceName = k.ResourceName
                            /\ tags[i].Namespace = k.Namespace
                IN /\ (same /\ tags[i].DeletedAt = 0) =>
                        /\ tags'[i].DeletedAt = clock
                        /\ tags'[i].DeletedAt # 0
                        /\ [tags'[i] EXCEPT !.DeletedAt = 0] = tags[i]
                   /\ ~same => tags'[i] = tags[i]]_vars

\* One delete removed two records of a resource that differ in tag or
\* container, and a record of another resource, there before, is live.
C10_Witness ==
    \E i \in DOMAIN tags : \E j \in DOMAIN tags : \E l \in DOMAIN tags :
        /\ i # j
        /\ ResourceKey(tags[i]) = ResourceKey(tags[j])
        /\ tags[i].DeletedAt # 0
        /\ tags[j].DeletedAt = tags[i].DeletedAt
        /\ tags[i].Tag # tags[j].Tag \/ tags[i].ContainerName # tags[j].ContainerName
        /\ ResourceKey(tags[l]) # ResourceKey(tags[i])
        /\ tags[l].DeletedAt = 0
        /\ tags[l].FirstSeen < tags[i].DeletedAt

\* C11: a DeleteImageTag of a resource key that no non-deleted record
\* matches (the resource was never seen, or its records are soft-deleted
\* already) changes no row, so it leaves the DeletedAt of the soft-deleted
\* rows as it was, and it fails only when the storage layer fails.
C11_DeleteNoMatchIsNoOp ==
    [][(/\ nOps' = nOps + 1
        /\ event'.Type = "DELETE"
        /\ ~\E i \in DOMAIN tags :
                /\ tags[i].ResourceType = event'.Id.ResourceType
                /\ tags[i].ResourceName = event'.Id.ResourceName
                /\ tags[i].Namespace = event'.Id.Namespace
                /\ tags[i].DeletedAt = 0)
            => /\ images' = images
               /\ tags' = tags
               /\ calls'[1].err \in {"", StorageFailure}]_vars

\* The latest event was a successful DELETE that changed no row, and a
\* record of its resource had been soft-deleted before the current time.
C11_Witness ==
    /\ event.Type = "DELETE"
    /\ Len(calls) = 1
    /\ calls[1].err = ""
    /\ ~calls[1].changed
    /\ \E i \in DOMAIN tags :
        /\ MatchesKey(tags[i], calls[1].args)
        /\ tags[i].DeletedAt # 0
        /\ tags[i].DeletedAt < clock

\* The non-deleted records a listing with the given namespace filter is
\* about.
Listed(namespace) ==
    {i \in DOMAIN tags :
        /\ tags[i].DeletedAt = 0
        /\ namespace = "" \/ tags[i].Namespace = namespace}

\* The group of a record: the name of its image and its resource.
GroupOf(i) ==
    <<images[tags[i].ImageID].Name, tags[i].ResourceType,
      tags[i].ResourceName, tags[i].Namespace>>

\* The group an inventory row is about.
GroupOfRow(row) ==
    <<row.Name, row.ResourceType, row.ResourceName, row.Namespace>>

\* C12: a successful GetAllImages returns exactly one row for each group
\* (image name, resource type, resource name, namespace) of non-deleted
\* records and no other row; the tag of the row is the tag of a record of
\* the group whose LastSeen no record of the group exceeds.
C12_LatestTagPerResource ==
    (reply.op = "GetAllImages" /\ reply.err = "") =>
        LET live == Listed(reply.namespace)
        IN /\ \A i \in live :
                \E row \in reply.rows :
                    /\ GroupOfRow(row) = GroupOf(i)
                    /\ \A other \in reply.rows :
                          GroupOfRow(other) = GroupOf(i) => other = row
                    /\ \E j \in live :
                          /\ GroupOf(j) = GroupOf(i)
                          /\ tags[j].Tag = row.Tag
                          /\ \A l \in live :
                                GroupOf(l) = GroupOf(i)
                                    => tags[l].LastSeen <= tags[j].LastSeen
           /\ Cardinality(reply.rows) = Cardinality({GroupOf(i) : i \in live})

\* The listing has two rows: one resource has a record of an earlier and a
\* record of a later tag of an image, another resource a record of the
\* same image.
C12_Witness ==
    /\ reply.op = "GetAllImages"
    /\ reply.err = ""
    /\ Cardinality(reply.rows) = 2
    /\ \E i \in Listed(reply.namespace) : \E j \in Listed(reply.namespace) :
        \E l \in Listed(reply.namespace) :
            /\ GroupOf(i) = GroupOf(j)
            /\ tags[i].Tag # tags[j].Tag
            /\ tags[i].LastSeen < tags[j].LastSeen
            /\ GroupOf(l) # GroupOf(i)
            /\ tags[l].ImageID = tags[i].ImageID

\* The container names of an inventory row.
ContainersOf(row) == {row.Containers[n] : n \in DOMAIN row.Containers}

\* C13: when two non-deleted records of one resource carry the same image
\* and tag in two containers, and every listed record of their group
\* carries that image and tag, a successful GetAllImages returns one row
\* for the image, tag and resource, and the row's Containers holds the two
\* container names and has length 2.
C13_ContainersAggregated ==
    (reply.op = "GetAllImages" /\ reply.err = "") =>
        \A i \in Listed(reply.namespace) : \A j \in Listed(reply.namespace) :
            (/\ tags[i].ImageID = tags[j].ImageID
             /\ tags[i].Tag = tags[j].Tag
             /\ ResourceKey(tags[i]) = ResourceKey(tags[j])
             /\ tags[i].ContainerName # tags[j].ContainerName
             /\ \A l \in Listed(reply.namespace) :
                    GroupOf(l) = GroupOf(i)
                        => /\ tags[l].ImageID = tags[i].ImageID
                           /\ tags[l].Tag = tags[i].Tag
                           /\ tags[l].ContainerName \in
                                {tags[i].ContainerName, tags[j].ContainerName})
                => \E row \in reply.rows :
                      /\ GroupOfRow(row) = GroupOf(i)
                      /\ row.Tag = tags[i].Tag
                      /\ \A other \in reply.rows :
                            GroupOfRow(other) = GroupOf(i) => other = row
                      /\ ContainersOf(row) =
                            {tags[i].ContainerName, tags[j].ContainerName}
                      /\ Len(row.Containers) = 2

\* Inventory row row shows record i.
RowShows(row, i) ==
    /\ row.Name = images[tags[i].ImageID].Name
    /\ row.Tag = tags[i].Tag
    /\ row.ResourceType = tags[i].ResourceType
    /\ row.ResourceName = tags[i].ResourceName
    /\ row.Namespace = tags[i].Namespace
    /\ tags[i].ContainerName \in ContainersOf(row)

\* C14: every row of a successful GetAllImages(ns) shows a non-deleted
\* record, of namespace ns when ns is not empty; every group of non-deleted
\* records (of namespace ns, of any namespace when ns is empty) has a row;
\* without such records the list is empty; and the call fails only when
\* the storage layer fails.
C14_ListedRecords ==
    reply.op = "GetAllImages" =>
        /\ reply.err \in {"", FetchError(StorageFailure)}
        /\ reply.err = "" =>
            /\ \A row \in reply.rows :
                    /\ reply.namespace # "" => row.Namespace = reply.namespace
                    /\ \E i \in DOMAIN tags :
                          /\ tags[i].DeletedAt = 0
                          /\ RowShows(row, i)
            /\ \A i \in DOMAIN tags :
                    (/\ tags[i].DeletedAt = 0
                     /\ reply.namespace \in {"", tags[i].Namespace})
                        => \E row \in reply.rows : GroupOfRow(row) = GroupOf(i)
            /\ (~\E i \in DOMAIN tags : tags[i].DeletedAt = 0)
                    => reply.rows = {}

\* A listing with a namespace filter returned a row while a non-deleted
\* record of another namespace was in the store.
C14_Witness ==
    /\ reply.op = "GetAllImages"
    /\ reply.err = ""
    /\ reply.namespace # ""
    /\ reply.rows # {}
    /\ \E i \in DOMAIN tags :
        /\ tags[i].DeletedAt = 0
        /\ tags[i].Namespace # reply.namespace

\* An Image row with the given name exists.
ImageKnown(imgs, imageName) ==
    \E i \in DOMAIN imgs : imgs[i].Name = imageName

\* C15: no step removes or changes an Image row; a GetImageTagHistory
\* for a name without Image row fails, with the record-not-found error
\* unless the storage layer failed; and for a name with an Image row it
\* never returns the record-not-found error and fails only when the
\* storage layer fails, whether or not the image has non-deleted records.
C15_NotFoundIffUnknown ==
    [][/\ \A i \in DOMAIN images :
            i \in DOMAIN images' /\ images'[i] = images[i]
       /\ (reply.op = "" /\ reply'.op = "GetImageTagHistory") =>
            IF ImageKnown(images, reply'.name)
            THEN reply'.err \in {"", NotFoundError(StorageFailure),
                                 HistoryError(StorageFailure)}
            ELSE reply'.err \in {NotFoundError(RecordNotFound),
                                 NotFoundError(StorageFailure)}]_vars

\* The history of an image was returned while every one of its records,
\* and it has some, was soft-deleted.
C15_Witness ==
    /\ reply.op = "GetImageTagHistory"
    /\ reply.err = ""
    /\ Len(reply.rows) > 0
    /\ \A i \in DOMAIN tags :
        images[tags[i].ImageID].Name = reply.name => tags[i].DeletedAt # 0

\* The records a history of the named image with the given namespace
\* filter is about: those of the Image row of that name with the lowest id,
\* soft-deleted ones included.
HistoryRecords(imageName, namespace) ==
    {i \in DOMAIN tags :
        /\ images[tags[i].ImageID].Name = imageName
        /\ \A j \in DOMAIN images :
              images[j].Name = imageName => tags[i].ImageID <= j
        /\ namespace = "" \/ tags[i].Namespace = namespace}

\* History entry e shows record i.
EntryShows(e, i) ==
    /\ e.Tag = tags[i].Tag
    /\ e.FirstSeen = tags[i].FirstSeen
    /\ e.LastSeen = tags[i].LastSeen
    /\ e.ResourceType = tags[i].ResourceType
    /\ e.ResourceName = tags[i].ResourceName
    /\ e.Namespace = tags[i].Namespace
    /\ e.Container = tags[i].ContainerName

\* C16: the Tags of a successful GetImageTagHistory has one entry for
\* every record of the resolved Image, soft-deleted or not, that is in the
\* namespace when one is given, no other entry, and no entry comes before
\* an entry with a later FirstSeen.
C16_HistoryEntries ==
    (reply.op = "GetImageTagHistory" /\ reply.err = "") =>
        LET recs == HistoryRecords(reply.name, reply.namespace)
        IN /\ Len(reply.rows) = Cardinality(recs)
           /\ \A i \in recs :
                \E n \in DOMAIN reply.rows : EntryShows(reply.rows[n], i)
           /\ \A n \in DOMAIN reply.rows :
                \E i \in recs : EntryShows(reply.rows[n], i)
           /\ \A m \in DOMAIN reply.rows : \A n \in DOMAIN reply.rows :
                m < n => reply.rows[m].FirstSeen >= reply.rows[n].FirstSeen

\* A history with a namespace filter lists a record first seen later
\* before a soft-deleted record first seen earlier.
C16_Witness ==
    /\ reply.op = "GetImageTagHistory"
    /\ reply.err = ""
    /\ reply.namespace # ""
    /\ Len(reply.rows) >= 2
    /\ reply.rows[1].FirstSeen > reply.rows[2].FirstSeen
    /\ \E i \in DOMAIN tags :
        /\ EntryShows(reply.rows[2], i)
        /\ tags[i].DeletedAt # 0

\* C17: in the Tags of a successful GetImageTagHistory an entry is active
\* exactly when a non-deleted record with the entry's tag is among the
\* records of the result (those of the resolved Image, in the namespace
\* when one is given); so entries with the same tag carry the same flag.
C17_ActiveFlag ==
    (reply.op = "GetImageTagHistory" /\ reply.err = "") =>
        LET recs == HistoryRecords(reply.name, reply.namespace)
        IN /\ \A n \in DOMAIN reply.rows :
                reply.rows[n].Active <=>
                    \E i \in recs : /\ tags[i].Tag = reply.rows[n].Tag
                                     /\ tags[i].DeletedAt = 0
           /\ \A m \in DOMAIN reply.rows : \A n \in DOMAIN reply.rows :
                reply.rows[m].Tag = reply.rows[n].Tag
                    => reply.rows[m].Active = reply.rows[n].Active

\* A history lists a soft-deleted and a non-deleted record of one tag,
\* both active.
C17_Witness ==
    /\ reply.op = "GetImageTagHistory"
    /\ reply.err = ""
    /\ \E m \in DOMAIN reply.rows : \E n \in DOMAIN reply.rows :
        \E i \in DOMAIN tags : \E j \in DOMAIN tags :
            /\ m # n
            /\ reply.rows[m].Tag = reply.rows[n].Tag
            /\ EntryShows(reply.rows[m], i)
            /\ EntryShows(reply.rows[n], j)
            /\ tags[i].DeletedAt # 0
            /\ tags[j].DeletedAt = 0
            /\ reply.rows[m].Active
            /\ reply.rows[n].Active

\* The pod template a trigger is about: the removed one, else the new one.
TemplateOf(tr) == IF tr.kind = "REMOVED" THEN tr.old[1] ELSE tr.new[1]

\* The event type the callback of a trigger passes to handlePodSpecChange.
TypeOf(kind) ==
    CASE kind = "CREATED" -> EventTypeAdd
      [] kind = "MODIFIED" -> EventTypeUpdate
      [] kind = "REMOVED" -> EventTypeDelete

\* Event e is of type ty and carries the resource key k, the name of
\* container c and the parsed reference of its image.
Carries(e, ty, k, c) ==
    /\ e.Type = ty
    /\ ResourceKey(e.Id) = k
    /\ e.Id.ContainerName = c.Name
    /\ e.Id.ImageName = Str(parseImageFull(c.Image).name)
    /\ e.Id.ImageTag = Str(parseImageFull(c.Image).tag)
    /\ e.Id.Repository = Str(parseImageFull(c.Image).repository)

\* evs holds exactly one event of type ty per container of spec, init and
\* regular containers together, in whatever order.
OnePerContainer(evs, ty, k, spec) ==
    LET cs == spec.InitContainers \o spec.Containers
    IN /\ Len(evs) = Len(cs)
       /\ \E f \in [DOMAIN evs -> DOMAIN cs] :
            /\ \A m, n \in DOMAIN evs : f[m] = f[n] => m = n
            /\ \A n \in DOMAIN evs : Carries(evs[n], ty, k, cs[f[n]])

\* C18: for a resource in a watched namespace, a CREATED trigger emits
\* exactly one ADD event and a REMOVED trigger exactly one DELETE event per
\* container of the pod template, init and regular containers together,
\* each with the resource key, the container's name and the parsed name,
\* tag and repository of the container's image; a template without
\* containers emits no event.
C18_OneEventPerContainer ==
    (/\ trigger.kind \in {"CREATED", "REMOVED"}
     /\ shouldWatchNamespace(namespaces, trigger.key.Namespace))
        => OnePerContainer(emitted, TypeOf(trigger.kind), trigger.key,
                           TemplateOf(trigger))

\* A workload with a regular and an init container was removed and two
\* DELETE events went out.
C18_Witness ==
    /\ trigger.kind = "REMOVED"
    /\ shouldWatchNamespace(namespaces, trigger.key.Namespace)
    /\ TemplateOf(trigger).InitContainers # <<>>
    /\ TemplateOf(trigger).Containers # <<>>
    /\ Len(emitted) = 2
    /\ \A n \in DOMAIN emitted : emitted[n].Type = EventTypeDelete

\* The image reference strings of a pod template, regular containers
\* followed by init containers.
RefsRegularFirst(spec) ==
    [n \in DOMAIN (spec.Containers \o spec.InitContainers) |->
        (spec.Containers \o spec.InitContainers)[n].Image]

\* The image reference strings of a pod template, init containers followed
\* by regular containers.
RefsInitFirst(spec) ==
    [n \in DOMAIN (spec.InitContainers \o spec.Containers) |->
        (spec.InitContainers \o spec.Containers)[n].Image]

\* Two lists differ in length or at some position.
Differ(a, b) == Len(a) # Len(b) \/ \E i \in DOMAIN a : a[i] # b[i]

\* A MODIFIED trigger of a watched namespace has arrived.
Modified ==
    /\ trigger.kind = "MODIFIED"
    /\ shouldWatchNamespace(namespaces, trigger.key.Namespace)

\* UPDATE events, one per container of the new template, went out if
\* changed holds, and nothing went out if it does not.
UpdatesIff(changed) ==
    IF changed
    THEN OnePerContainer(emitted, EventTypeUpdate, trigger.key,
                         trigger.new[1])
    ELSE emitted = <<>>

\* C19 (amended): on a MODIFIED trigger UPDATE events, one per container
\* of the new template, are emitted iff the ordered list of image reference
\* strings, regular containers followed by init containers, differs between
\* the old and the new template in length or at some position; when the
\* two lists are equal nothing is emitted.
C19_UpdateIffRefsDiffer ==
    Modified => UpdatesIff(Differ(RefsRegularFirst(trigger.old[1]),
                                  RefsRegularFirst(trigger.new[1])))

\* C19 as stated: the lists compared are the init containers followed by
\* the regular containers.
C19_AsStated ==
    Modified => UpdatesIff(Differ(RefsInitFirst(trigger.old[1]),
                                  RefsInitFirst(trigger.new[1])))

\* A template of one container was modified into one with an init
\* container as well, and two UPDATE events went out.
C19_Witness ==
    /\ Modified
    /\ Differ(RefsRegularFirst(trigger.old[1]),
              RefsRegularFirst(trigger.new[1]))
    /\ trigger.new[1].InitContainers # <<>>
    /\ Len(emitted) = 2
    /\ \A n \in DOMAIN emitted : emitted[n].Type = EventTypeUpdate

\* The namespace is in the allow-list.
InAllowList(namespace) ==
    \E n \in DOMAIN namespaces : namespaces[n] = namespace

\* The number of containers of a pod template.
NumContainers(spec) == Len(spec.Containers) + Len(spec.InitContainers)

\* C20: with a non-empty allow-list no event of a namespace outside the
\* list reaches the event handler, and the callback of a resource outside
\* the list leaves the store as it is; with an empty allow-list a created
\* or removed resource of any namespace has all its events delivered.
C20_NamespaceAllowList ==
    [][nOps' # nOps =>
        /\ namespaces # <<>> =>
              /\ \A n \in DOMAIN emitted' :
                    InAllowList(emitted'[n].Id.Namespace)
              /\ ~InAllowList(trigger'.key.Namespace) =>
                    /\ emitted' = <<>>
                    /\ images' = images
                    /\ tags' = tags
        /\ (namespaces = <<>> /\ trigger'.kind \in {"CREATED", "REMOVED"}) =>
              /\ Len(emitted') = NumContainers(TemplateOf(trigger'))
              /\ \A n \in DOMAIN emitted' :
                    emitted'[n].Id.Namespace = trigger'.key.Namespace]_vars

\* A workload with containers was created in a namespace outside a
\* non-empty allow-list and nothing went out.
C20_Witness ==
    /\ namespaces # <<>>
    /\ trigger.kind = "CREATED"
    /\ ~InAllowList(trigger.key.Namespace)
    /\ NumContainers(TemplateOf(trigger)) > 0
    /\ emitted = <<>>

\* The positions that bound the segments of s: before its first
\* character, at every c, after its last character.
Cuts(s, c) == {0} \cup {n \in DOMAIN s : s[n] = c} \cup {Len(s) + 1}

\* The number of segments c separates s into.
NumSegments(s, c) == Cardinality(Cuts(s, c)) - 1

\* The k-th of those segments.
Segment(s, c, k) ==
    LET cut(j) == CHOOSE x \in Cuts(s, c) :
                      Cardinality({y \in Cuts(s, c) : y < x}) = j
    IN SubSeq(s, cut(k - 1) + 1, cut(k) - 1)

\* The path of a reference: what stands before its first ':'.
PathOf(ref) == Segment(ref, ":", 1)

\* C21: for every reference, with the path before the tag: one segment
\* gives name = the segment and repository = "docker.io"; two segments
\* give repository = first and name = second when the first contains '.',
\* otherwise repository = "docker.io/" + first and name = second; three or
\* more give name = last segment and repository = the preceding segments
\* joined by '/'. "library/nginx:1.19" gives (nginx, 1.19,
\* docker.io/library), "gcr.io/my-project/app:v1.0" gives (app, v1.0,
\* gcr.io/my-project).
C21_PathMapping ==
    parsed.called =>
        LET path == PathOf(imageRef)
            n == NumSegments(path, "/")
            seg(k) == Segment(path, "/", k)
        IN /\ ~parsed.panic
           /\ n = 1 =>
                /\ parsed.name = path
                /\ Str(parsed.repository) = "docker.io"
           /\ (n = 2 /\ \E i \in DOMAIN seg(1) : seg(1)[i] = ".") =>
                /\ parsed.repository = seg(1)
                /\ parsed.name = seg(2)
           /\ (n = 2 /\ \A i \in DOMAIN seg(1) : seg(1)[i] # ".") =>
                /\ Str(parsed.repository) = "docker.io/" \o Str(seg(1))
                /\ parsed.name = seg(2)
           /\ n >= 3 =>
                /\ parsed.name = seg(n)
                /\ parsed.repository
                     = SubSeq(path, 1, Len(path) - Len(seg(n)) - 1)
           /\ imageRef = LibraryNginx =>
                /\ Str(parsed.name) = "nginx"
                /\ Str(parsed.tag) = "1.19"
                /\ Str(parsed.repository) = "docker.io/library"
           /\ imageRef = GcrApp =>
                /\ Str(parsed.name) = "app"
                /\ Str(parsed.tag) = "v1.0"
                /\ Str(parsed.repository) = "gcr.io/my-project"

\* A reference of two segments whose first holds a '.' was parsed.
C21_Witness ==
    /\ parsed.called
    /\ NumSegments(PathOf(imageRef), "/") = 2
    /\ \E i \in DOMAIN Segment(PathOf(imageRef), "/", 1) :
            Segment(PathOf(imageRef), "/", 1)[i] = "."
    /\ parsed.repository = Segment(PathOf(imageRef), "/", 1)

\* C22: the second ':'-separated segment is the tag only when the
\* reference holds exactly one ':'; without a ':', and with several, the
\* tag is "latest".
C22_TagOnlyWithOneColon ==
    parsed.called =>
        /\ ~parsed.panic
        /\ NumSegments(imageRef, ":") = 2 =>
                parsed.tag = Segment(imageRef, ":", 2)
        /\ NumSegments(imageRef, ":") # 2 => Str(parsed.tag) = "latest"

\* A reference with two ':' was parsed and its second segment is not
\* the tag.
C22_Witness ==
    /\ parsed.called
    /\ NumSegments(imageRef, ":") = 3
    /\ Segment(imageRef, ":", 2) # <<>>
    /\ parsed.tag # Segment(imageRef, ":", 2)
    /\ Str(parsed.tag) = "latest"

\* C23: for every reference, the empty one and those with several ':' or
\* '/' or empty segments included, parseImageFull returns three strings
\* and does not panic.
C23_Total ==
    parsed.called =>
        /\ ~parsed.panic
        /\ parsed.name \in Seq(STRING)
        /\ parsed.tag \in Seq(STRING)
        /\ parsed.repository \in Seq(STRING)

\* A reference with several ':' and '/' and only empty segments was
\* parsed.
C23_Witness ==
    /\ parsed.called
    /\ ~parsed.panic
    /\ NumSegments(imageRef, ":") >= 3
    /\ NumSegments(PathOf(imageRef), "/") >= 3
    /\ \A k \in 1..NumSegments(PathOf(imageRef), "/") :
            Segment(PathOf(imageRef), "/", k) = <<>>

\* No two rows of imgs carry the same full name, and the full name of a
\* row is its repository, "/" and its name.
UniqueFullNames(imgs) ==
    /\ \A i, j \in DOMAIN imgs :
            imgs[i].FullName = imgs[j].FullName => i = j
    /\ \A i \in DOMAIN imgs :
            imgs[i].FullName = imgs[i].Repository \o "/" \o imgs[i].Name

\* Every row of before is a row of after, unchanged.
RowsKept(before, after) ==
    \A i \in DOMAIN before : i \in DOMAIN after /\ after[i] = before[i]

\* C24: under every interleaving of the statements of concurrent
\* UpsertImageTag and DeleteImageTag calls there is at most one Image row
\* per full name, and no step removes or changes an Image row.
C24_ImagesUniqueAndPermanent ==
    [][UniqueFullNames(images') /\ RowsKept(images, images')]_vars

\* Two upserts raced for a new image: one row exists and one call was
\* refused by the unique index.
C24_Witness ==
    /\ Len(images) = 1
    /\ \E p \in Procs : result[p] = ImageError(DuplicateKey)
    /\ \E p \in Procs : result[p] = ""

\* C25: under every interleaving of concurrent UpsertImageTag calls no
\* step lowers the lastSeen of a record: two overlapping calls for one
\* tuple leave the larger of their two timestamps.
C25_LastSeenNeverDecreases ==
    [][\A i \in DOMAIN tags :
          i \in DOMAIN tags' => tags'[i].LastSeen >= tags[i].LastSeen]_vars

\* The tuple a record stands for.
TupleOf(i) ==
    [ImageName |-> images[tags[i].ImageID].Name,
     Repository |-> images[tags[i].ImageID].Repository,
     ImageTag |-> tags[i].Tag, ResourceType |-> tags[i].ResourceType,
     ResourceName |-> tags[i].ResourceName, Namespace |-> tags[i].Namespace,
     ContainerName |-> tags[i].ContainerName]

\* The tuples of the non-deleted records of resource k.
LiveTuplesOf(k) ==
    {TupleOf(i) : i \in {j \in DOMAIN tags :
                            MatchesKey(tags[j], k) /\ tags[j].DeletedAt = 0}}

\* The tuples of the containers of a pod template of resource k.
TuplesOfSpec(k, spec) ==
    {ImageEvent(EventTypeUpdate, k, c).Id :
        c \in {(spec.Containers \o spec.InitContainers)[n] :
                  n \in DOMAIN (spec.Containers \o spec.InitContainers)}}

\* C26: after a MODIFIED trigger that changes the images of a watched
\* resource, handled without storage failure, the non-deleted records of
\* the resource are exactly the tuples of the new pod template: a tuple
\* that is no longer in the template is soft-deleted.
C26_ModifiedRetiresOldTuples ==
    (/\ Modified
     /\ emitted # <<>>
     /\ errors = 0)
        => LiveTuplesOf(trigger.key) = TuplesOfSpec(trigger.key, trigger.new[1])

\* Callback p commits its statement in this step and returns no error.
Commits(p, stmt) == pc[p] = stmt /\ pc'[p] = "idle" /\ result'[p] = ""

\* While callback p was between its time.Now() and its insert, a
\* DeleteImageTag of the resource of its tuple committed.
DeleteCommittedDuring(p) ==
    \E i \in DOMAIN tags :
        /\ MatchesKey(tags[i], ResourceKey(task[p].args))
        /\ tags[i].DeletedAt > now[p]

\* An UpsertImageTag of the resource key k is under way in another callback.
UpsertUnderWay(p, k) ==
    \E q \in Procs \ {p} :
        /\ pc[q] \in {"find", "create", "now", "insert"}
        /\ ResourceKey(task[q].args) = k

\* C27: when a DeleteImageTag and an UpsertImageTag of one resource key
\* run concurrently, the upsert that commits after the delete leaves the
\* tuple with one non-deleted record, the delete that commits while the
\* upsert is under way leaves the key with none, and neither leaves a
\* second non-deleted row of a tuple or a record without its Image.
C27_RaceMatchesCommitOrder ==
    [][\A p \in Procs :
         /\ (Commits(p, "insert") /\ DeleteCommittedDuring(p)) =>
                Cardinality(LiveRecordsIn(images', tags', task[p].args)) = 1
         /\ (Commits(p, "delete") /\ UpsertUnderWay(p, task[p].args)) =>
                /\ \A i \in DOMAIN tags' :
                      MatchesKey(tags'[i], task[p].args)
                          => tags'[i].DeletedAt # 0
                /\ \A i \in DOMAIN tags' :
                      tags'[i].ImageID \in DOMAIN images'
                /\ \A i, j \in DOMAIN tags' :
                      (/\ SameIndexKey(tags'[i], tags'[j])
                       /\ tags'[i].DeletedAt = 0
                       /\ tags'[j].DeletedAt = 0) => i = j]_vars

\* C28: once the context is cancelled, stopCh is eventually closed, no
\* callback enters the repository after that, and a repository call that
\* is under way at the cancellation runs to its return.
C28_StopsAndCompletes ==
    /\ ctxDone ~> (stopCh = "closed")
    /\ \A p \in Procs : (ctxDone /\ pc[p] # "idle") ~> (pc[p] = "idle")
    /\ [][stopCh = "closed" => nCalls' = nCalls]_vars

\* The two tables hold the same rows apart from their LastSeen.
SameApartFromLastSeen(before, after) ==
    /\ Len(after) = Len(before)
    /\ \A i \in DOMAIN before :
            [after[i] EXCEPT !.LastSeen = 0] = [before[i] EXCEPT !.LastSeen = 0]

\* The event just handled was handled without error.
HandledWithoutError == nOps > 0 /\ \A n \in DOMAIN calls : calls[n].err = ""

\* C29: an event handled again right after it was handled without error,
\* whether ADD, UPDATE or DELETE, leaves the Image rows as they are and the
\* records as they are apart from LastSeen: the same records with the same
\* FirstSeen and the same DeletedAt.
C29_RedeliveryIdempotent ==
    [][(/\ nOps' = nOps + 1
        /\ event' = event
        /\ HandledWithoutError)
          => /\ images' = images
             /\ SameApartFromLastSeen(tags, tags')]_vars

\* An ADD event was delivered a second time, later: its record has the
\* FirstSeen of the first delivery and the LastSeen of the second.
C29_Witness ==
    /\ event.Type = EventTypeAdd
    /\ Len(calls) = 1
    /\ calls[1].again
    /\ calls[1].err = ""
    /\ \E i \in LiveRecordsOf(event.Id) :
            tags[i].FirstSeen < tags[i].LastSeen

\* C30: when UpsertImageTag failed for an event, in FirstOrCreate or in the
\* tag insert, and the event is delivered again and handled without error,
\* the store holds exactly one Image row of the full name and exactly one
\* non-deleted record of the tuple.
C30_SelfHealing ==
    [][(/\ nOps' = nOps + 1
        /\ event' = event
        /\ Dispatch(event) = "UpsertImageTag"
        /\ Len(calls) = 1
        /\ calls[1].err # ""
        /\ calls'[1].err = "")
          => /\ Cardinality({i \in DOMAIN images' :
                    images'[i].FullName
                        = FullName(event.Id.Repository, event.Id.ImageName)})
                    = 1
             /\ Cardinality(LiveRecordsIn(images', tags', event.Id)) = 1]_vars

\* The Image rows of a name.
ImagesNamed(imageName) == {j \in DOMAIN images : images[j].Name = imageName}

\* C31: a successful GetImageTagHistory is about one Image row, the one of
\* lowest id among those of the name: its entries are, one for one, the
\* records of that Image (in the namespace when one is given), and an
\* entry is active exactly when that Image has a non-deleted record of the
\* entry's tag among them; records of other Images of the same name are
\* neither listed nor counted.
C31_HistoryOfFirstImage ==
    (reply.op = "GetImageTagHistory" /\ reply.err = "") =>
        LET id == CHOOSE j \in ImagesNamed(reply.name) :
                      \A k \in ImagesNamed(reply.name) : j <= k
            recs == {i \in DOMAIN tags :
                        /\ tags[i].ImageID = id
                        /\ reply.namespace = ""
                              \/ tags[i].Namespace = reply.namespace}
        IN /\ Len(reply.rows) = Cardinality(recs)
           /\ \E f \in [DOMAIN reply.rows -> recs] :
                /\ \A m, n \in DOMAIN reply.rows : f[m] = f[n] => m = n
                /\ \A n \in DOMAIN reply.rows :
                      /\ EntryShows(reply.rows[n], f[n])
                      /\ reply.rows[n].Active <=>
                            \E i \in recs :
                                /\ tags[i].Tag = reply.rows[n].Tag
                                /\ tags[i].DeletedAt = 0

\* Two Images share the name; the first has one soft-deleted record, the
\* second a non-deleted record of the same tag: the history has the one
\* entry, inactive.
C31_Witness ==
    /\ reply.op = "GetImageTagHistory"
    /\ reply.err = ""
    /\ reply.namespace = ""
    /\ Cardinality(ImagesNamed(reply.name)) = 2
    /\ Len(reply.rows) = 1
    /\ ~reply.rows[1].Active
    /\ \E i \in DOMAIN tags :
            /\ tags[i].ImageID # 1
            /\ tags[i].Tag = reply.rows[1].Tag
            /\ tags[i].DeletedAt = 0

\* The records a listing with the smallest-id tie-break selects: of each
\* group of non-deleted records the one with the greatest LastSeen, and of
\* several of these the one with the smallest id.
SelectedBySmallestID(namespace) ==
    LET rows == ActiveTags(tags, namespace)
    IN {i \in rows :
           \A j \in rows :
               LatestKey(images, tags[j]) = LatestKey(images, tags[i]) =>
                   \/ tags[j].LastSeen < tags[i].LastSeen
                   \/ tags[j].LastSeen = tags[i].LastSeen /\ i <= j}

\* C32: GetAllImages is a function of the store: a successful call returns
\* the rows of the records selected with the smallest-id tie-break, so two
\* calls on one store return the same rows.
C32_Deterministic ==
    (reply.op = "GetAllImages" /\ reply.err = "") =>
        reply.rows =
            {ImageInfo(images, tags[i]) :
                i \in SelectedBySmallestID(reply.namespace)}

\* The position of the last '/' of a reference, 0 without one.
LastSlash(ref) ==
    LET at == {n \in DOMAIN ref : ref[n] = "/"}
    IN IF at = {} THEN 0 ELSE CHOOSE n \in at : \A m \in at : m <= n

\* The position of the ':' that separates the tag: the last ':' after the
\* last '/', 0 without one.
TagColon(ref) ==
    LET at == {n \in DOMAIN ref : ref[n] = ":" /\ n > LastSlash(ref)}
    IN IF at = {} THEN 0 ELSE CHOOSE n \in at : \A m \in at : m <= n

\* The reference has a ':' in its registry host, that is before a '/'.
HasPort(ref) == \E n \in DOMAIN ref : ref[n] = ":" /\ n < LastSlash(ref)

\* C33: a reference with a host:port registry and a tag is split at the
\* ':' of the tag: the tag is what follows it, the name is what stands
\* between the last '/' and it, and the repository, port included, is
\* what precedes the last '/'. "host:5000/team/app:v1" gives (app, v1,
\* host:5000/team).
C33_PortStaysInRepository ==
    (parsed.called /\ HasPort(imageRef) /\ TagColon(imageRef) > 0) =>
        /\ ~parsed.panic
        /\ parsed.tag
             = SubSeq(imageRef, TagColon(imageRef) + 1, Len(imageRef))
        /\ parsed.name
             = SubSeq(imageRef, LastSlash(imageRef) + 1,
                      TagColon(imageRef) - 1)
        /\ parsed.repository = SubSeq(imageRef, 1, LastSlash(imageRef) - 1)
        /\ imageRef = HostPortApp =>
                /\ Str(parsed.name) = "app"
                /\ Str(parsed.tag) = "v1"
                /\ Str(parsed.repository) = "host:5000/team"

\* The distinct tags of an image in a namespace among inventory rows.
DistinctTags(rows, name, namespace) ==
    {r.Tag : r \in {x \in rows : x.Name = name /\ x.Namespace = namespace}}

\* C34: after an updateMetrics that got the inventory, the gauge
\* kubetag_image_version_count has a sample for exactly the (image_name,
\* namespace) pairs of the inventory rows, and its value is the number of
\* distinct tags of that image in that namespace among the rows.
C34_VersionCountIsDistinctTags ==
    (reply.op = "updateMetrics" /\ reply.err = "") =>
        /\ DOMAIN imageVersionGauge
             = {<<r.Name, r.Namespace>> : r \in reply.rows}
        /\ \A k \in DOMAIN imageVersionGauge :
                imageVersionGauge[k]
                    = Cardinality(DistinctTags(reply.rows, k[1], k[2]))

\* C35: every record of image_tags was first seen no later than it was
\* last seen, whatever the interleaving of concurrent UpsertImageTag and
\* DeleteImageTag calls.
C35_FirstSeenBeforeLastSeen ==
    \A i \in DOMAIN tags : tags[i].FirstSeen <= tags[i].LastSeen

\* C36: a soft-deleted record never changes again: no UpsertImageTag and
\* no DeleteImageTag changes its DeletedAt, FirstSeen or LastSeen.
C36_DeletedRecordImmutable ==
    [][\A i \in DOMAIN tags :
          tags[i].DeletedAt # 0 =>
              /\ i \in DOMAIN tags'
              /\ tags'[i].DeletedAt = tags[i].DeletedAt
              /\ tags'[i].FirstSeen = tags[i].FirstSeen
              /\ tags'[i].LastSeen = tags[i].LastSeen]_vars

\* C37: stopCh is closed at most once: once it is closed, no step runs
\* Stop (and so close(im.stopCh)) again, whether a caller or the goroutine
\* of Start on ctx.Done().
C37_ClosedAtMostOnce ==
    [][stopCh = "closed" => stopCalls' = stopCalls]_vars

\* Record r of table tgs, with its image in imgs, stands for tuple a.
StandsFor(imgs, r, a) ==
    /\ imgs[r.ImageID].Name = a.ImageName
    /\ imgs[r.ImageID].Repository = a.Repository
    /\ r.Tag = a.ImageTag
    /\ r.ResourceType = a.ResourceType
    /\ r.ResourceName = a.ResourceName
    /\ r.Namespace = a.Namespace
    /\ r.ContainerName = a.ContainerName

\* The step is an UpsertImageTag(a) that returned nil: the history of the
\* successful upserts of a moves on.  (It stands still only in a third or
\* later upsert of a at one clock value, which repeats the one before.)
UpsertReturnedNil(a) ==
    /\ nOps' = nOps + 1
    /\ upserts'[a] # upserts[a]
    /\ upserts'[a].n >= 1

\* C38: an UpsertImageTag that returns nil keeps every Image row and adds
\* at most one, the one of its full name; it keeps every record but at
\* most one, which is the record of its tuple, either inserted or changed
\* in LastSeen only.
C38_UpsertChangesOneRecord ==
    [][\A a \in Tuples :
          UpsertReturnedNil(a) =>
             LET created == DOMAIN images' \ DOMAIN images
                 touched == {i \in DOMAIN tags' :
                                i \notin DOMAIN tags \/ tags'[i] # tags[i]}
             IN /\ RowsKept(images, images')
                /\ Cardinality(created) <= 1
                /\ \A j \in created :
                      images'[j].FullName = FullName(a.Repository, a.ImageName)
                /\ DOMAIN tags \subseteq DOMAIN tags'
                /\ Cardinality(touched) <= 1
                /\ \A i \in touched :
                      /\ StandsFor(images', tags'[i], a)
                      /\ i \in DOMAIN tags =>
                            [tags'[i] EXCEPT !.LastSeen = 0]
                                = [tags[i] EXCEPT !.LastSeen = 0]]_vars

\* A tuple of a second repository was upserted, once and now, in a store
\* that had an Image row and an older record: the second Image row and
\* the last record are the ones this upsert created.
C38_Witness ==
    \E a \in Tuples :
        /\ upserts[a].n = 1
        /\ upserts[a].first = clock
        /\ Len(images) = 2
        /\ images[2].FullName = FullName(a.Repository, a.ImageName)
        /\ Len(tags) >= 2
        /\ StandsFor(images, tags[Len(tags)], a)
        /\ tags[Len(tags)].FirstSeen = clock
        /\ tags[1].LastSeen < clock
        /\ tags[1].ImageID = 1

\* The reference r with "docker.io/" in front.
WithDockerIO(r) == DockerIO \o <<"/">> \o r

\* The path of the reference has one segment, or two segments with no
\* '.' in the first: the references the parser gives the default registry.
DefaultRegistry(r) ==
    \/ NumSegments(PathOf(r), "/") = 1
    \/ /\ NumSegments(PathOf(r), "/") = 2
       /\ \A i \in DOMAIN Segment(PathOf(r), "/", 1) :
              Segment(PathOf(r), "/", 1)[i] # "."

\* C39: for every reference the parser gives the default registry,
\* writing "docker.io/" in front changes nothing: parseImageFull returns
\* the same name, tag and repository for both.
C39_DockerIOPrefixIsNeutral ==
    (parsed.called /\ DefaultRegistry(imageRef)) =>
        /\ ~parsed.panic
        /\ parseImageFull(WithDockerIO(imageRef)).name = parsed.name
        /\ parseImageFull(WithDockerIO(imageRef)).tag = parsed.tag
        /\ parseImageFull(WithDockerIO(imageRef)).repository
             = parsed.repository

\* A reference of two segments and a tag was parsed: with the prefix it
\* has three segments, and the repository is still "docker.io/" and the
\* first segment.
C39_Witness ==
    /\ parsed.called
    /\ NumSegments(PathOf(imageRef), "/") = 2
    /\ DefaultRegistry(imageRef)
    /\ Segment(PathOf(imageRef), "/", 1) # <<>>
    /\ parsed.tag # Latest
    /\ NumSegments(PathOf(WithDockerIO(imageRef)), "/") = 3
    /\ parsed.repository
         = WithDockerIO(Segment(PathOf(imageRef), "/", 1))

====
